---- MODULE Spec2Model ----
(***************************************************************************)
(* State-machine model of the todolist application: the TodoApp            *)
(* orchestrator (src/src/TodoApp.js), TodoOperations and ListOperations    *)
(* (src/src/TodoOperations.js) and the UndoManager (src/src/UndoManager.js)*)
(***************************************************************************)
EXTENDS Integers, Sequences, FiniteSets, TLC

VARIABLES
    lists,          \* TodoApp.lists: array of list records
    todos,          \* TodoApp.todos: array of task records (array order matters)
    currentListId,  \* TodoApp.currentListId
    undoStack,      \* UndoManager.undoStack
    maxSize,        \* UndoManager.maxSize
    nextTodo,       \* number of task ids generated so far + 1
    nextList,       \* number of list ids generated so far + 1
    live,           \* history: accepted, not yet undone actions, in push order
    room,           \* exploration budget: undo records the session may still push
    last            \* observation of the last call: name, result, effects

vars == <<lists, todos, currentListId, undoStack, maxSize, nextTodo, nextList, live, room, last>>

----------------------------------------------------------------------------
(* Bounds of the model *)

MaxTodos == 3
MaxLists == 1
MaxHistory == 1
MaxSession == 3
MaxDrag == 2
MaxCapacity == 2
MaxLive == 4
MaxCompleted == 1

(* Program constants and sentinels *)

Null == "null"
Default == "default"
Undefined == 0 - 1
OrderStep == 1000
InitialOrder == 1000
DefaultMaxSize == 50
Epoch == 1000000

----------------------------------------------------------------------------
(* Generic sequence helpers (JavaScript array methods) *)

SeqToSet(s) == {s[i] : i \in 1..Len(s)}

Distinct(s) == \A i, j \in 1..Len(s) : i # j => s[i] # s[j]

\* Array.prototype.findIndex on ids, 1-based; 0 stands for -1
FindIndex(ts, id) ==
    LET hits == {i \in 1..Len(ts) : ts[i].id = id}
    IN  IF hits = {} THEN 0 ELSE CHOOSE i \in hits : \A j \in hits : i <= j

\* Array.prototype.indexOf, 1-based; 0 stands for -1
IndexOf(s, x) ==
    LET hits == {i \in 1..Len(s) : s[i] = x}
    IN  IF hits = {} THEN 0 ELSE CHOOSE i \in hits : \A j \in hits : i <= j

HasId(ts, id) == FindIndex(ts, id) # 0

Ids(ts) == [i \in 1..Len(ts) |-> ts[i].id]

\* all sequences of pairwise distinct elements of S with length in lo..hi
DistinctSeqs(S, lo, hi) ==
    UNION {{s \in [1..n -> S] : Distinct(s)} : n \in lo..hi}

\* generateId(): an opaque fresh string
TodoId(n) == "t" \o ToString(n)
ListId(n) == "l" \o ToString(n)

\* new Date(): a timestamp, far above any order key
Now(n) == Epoch + n

----------------------------------------------------------------------------
(* Views of the task collection (TodoApp) *)

\* listId === 'default' ? null : listId
NormalizeListId(listId) == IF listId = Default THEN Null ELSE listId

\* TodoApp.getTodosForList: the 'default' view is the whole array itself
getTodosForList(ts, listId) ==
    IF listId = Default THEN ts
    ELSE SelectSeq(ts, LAMBDA t : t.listId = listId)

\* sort key of the comparator: order, or the creation time when order is undefined
EffectiveOrder(t) == IF t.order # Undefined THEN t.order ELSE t.createdAt

\* fault seeded for C17: the comparator looks at the order only
SortsBefore_IgnoresCompleted(a, b) == EffectiveOrder(a) < EffectiveOrder(b)

\* comparator(a, b) < 0 in getFilteredTodos / renderTodos
SortsBefore(a, b) ==
    IF a.completed # b.completed THEN ~a.completed
    ELSE EffectiveOrder(a) < EffectiveOrder(b)

\* one step of a stable sort: x goes in front of the first element it sorts before
RECURSIVE InsertStable(_, _)
InsertStable(sorted, x) ==
    IF sorted = <<>> THEN <<x>>
    ELSE IF SortsBefore(x, Head(sorted)) THEN <<x>> \o sorted
    ELSE <<Head(sorted)>> \o InsertStable(Tail(sorted), x)

\* Array.prototype.sort with the comparator above (stable)
RECURSIVE SortTodos(_)
SortTodos(ts) ==
    IF ts = <<>> THEN <<>>
    ELSE InsertStable(SortTodos(SubSeq(ts, 1, Len(ts) - 1)), ts[Len(ts)])

\* value returned by TodoApp.getFilteredTodos()
FilteredTodos(ts, cur) == SortTodos(getTodosForList(ts, cur))

\* the array TodoApp.todos after getFilteredTodos(): sorted in place in the
\* 'default' view, where getTodosForList returns the array itself
TodosAfterFilter(ts, cur) == IF cur = Default THEN SortTodos(ts) ELSE ts

\* the array after renderTodos(): it sorts the same way when the page shows the
\* task container and no task is being edited, and returns early otherwise
TodosAfterRender(ts, cur, shown) == IF shown THEN TodosAfterFilter(ts, cur) ELSE ts

\* the outcomes of renderTodos() that can differ: it touches the array only in
\* the 'default' view, where a named list is a filtered copy
RenderCases(cur) == IF cur = Default THEN BOOLEAN ELSE {FALSE}

----------------------------------------------------------------------------
(* Order keys (TodoOperations) *)

\* todo.order || 0
OrderOrZero(t) == IF t.order = Undefined THEN 0 ELSE t.order

SeqMax(s) == CHOOSE m \in SeqToSet(s) : \A x \in SeqToSet(s) : x <= m

\* fault seeded for C15: the maximum is taken over the tasks of every partition
getNextOrderValue_AllTasks(ts, listId) ==
    IF Len(ts) = 0 THEN InitialOrder
    ELSE SeqMax([i \in 1..Len(ts) |-> OrderOrZero(ts[i])]) + OrderStep

\* TodoOperations.getNextOrderValue
getNextOrderValue(ts, listId) ==
    LET normalizedListId == NormalizeListId(listId)
        listTodos == SelectSeq(ts, LAMBDA t : t.listId = normalizedListId)
    IN  IF Len(listTodos) = 0 THEN InitialOrder
        ELSE SeqMax([i \in 1..Len(listTodos) |-> OrderOrZero(listTodos[i])]) + OrderStep

\* isMatchingList in TodoOperations.reorderTodos
IsMatchingList(t, normalizedListId) ==
    \/ (t.listId = Null /\ normalizedListId = Null)
    \/ (t.listId # Null /\ t.listId = normalizedListId)

\* first loop of reorderTodos: the captured originalOrders map
OriginalOrders(todoIds, normalizedListId, ts) ==
    LET matched == {id \in SeqToSet(todoIds) :
                        HasId(ts, id) /\ IsMatchingList(ts[FindIndex(ts, id)], normalizedListId)}
    IN  [id \in matched |-> OrderOrZero(ts[FindIndex(ts, id)])]

\* fault seeded for C37: the loop keys every task it finds, whatever its list
RECURSIVE AssignOrders_AnyList(_, _, _, _)
AssignOrders_AnyList(todoIds, k, normalizedListId, acc) ==
    IF k > Len(todoIds) THEN acc
    ELSE LET i == FindIndex(acc.ts, todoIds[k])
             newOrder == k * OrderStep
         IN  IF i # 0 /\ acc.ts[i].order # newOrder
             THEN AssignOrders_AnyList(todoIds, k + 1, normalizedListId,
                      [ts |-> [acc.ts EXCEPT ![i].order = newOrder], changed |-> TRUE])
             ELSE AssignOrders_AnyList(todoIds, k + 1, normalizedListId, acc)

\* second loop of reorderTodos, entry by entry from index k on:
\* [ts |-> tasks with new keys, changed |-> the reordered flag]
RECURSIVE AssignOrders(_, _, _, _)
AssignOrders(todoIds, k, normalizedListId, acc) ==
    IF k > Len(todoIds) THEN acc
    ELSE LET i == FindIndex(acc.ts, todoIds[k])
             newOrder == k * OrderStep
         IN  IF i # 0 /\ IsMatchingList(acc.ts[i], normalizedListId) /\ acc.ts[i].order # newOrder
             THEN AssignOrders(todoIds, k + 1, normalizedListId,
                      [ts |-> [acc.ts EXCEPT ![i].order = newOrder], changed |-> TRUE])
             ELSE AssignOrders(todoIds, k + 1, normalizedListId, acc)

\* the undo record pushed by reorderTodos
ReorderAction(todoIds, normalizedListId, ts) ==
    [type |-> "reorderTodos", listId |-> normalizedListId, todoIds |-> todoIds,
     originalOrders |-> OriginalOrders(todoIds, normalizedListId, ts)]

\* fault seeded for C5: the reordered flag is ignored, every call records and saves
reorderTodos_AlwaysRecords(todoIds, listId, ts) ==
    IF Len(todoIds) = 0
    THEN [ts |-> ts, ret |-> FALSE, push |-> <<>>, saves |-> 0]
    ELSE LET normalizedListId == NormalizeListId(listId)
             r == AssignOrders(todoIds, 1, normalizedListId, [ts |-> ts, changed |-> FALSE])
         IN  [ts |-> r.ts, ret |-> TRUE,
              push |-> <<ReorderAction(todoIds, normalizedListId, ts)>>, saves |-> 1]

\* TodoOperations.reorderTodos: [ts, ret, push (sequence of pushed actions), saves]
reorderTodos(todoIds, listId, ts) ==
    IF Len(todoIds) = 0
    THEN [ts |-> ts, ret |-> FALSE, push |-> <<>>, saves |-> 0]
    ELSE LET normalizedListId == NormalizeListId(listId)
             r == AssignOrders(todoIds, 1, normalizedListId, [ts |-> ts, changed |-> FALSE])
         IN  IF r.changed
             THEN [ts |-> r.ts, ret |-> TRUE,
                   push |-> <<ReorderAction(todoIds, normalizedListId, ts)>>, saves |-> 1]
             ELSE [ts |-> ts, ret |-> FALSE, push |-> <<>>, saves |-> 0]

----------------------------------------------------------------------------
(* Drag-and-drop reorder planning (TodoApp.reorderTodosInList) *)

\* fault seeded for C2: the dragged tasks are collected in reverse order
DraggedInList_Reversed(current, draggedTodoIds) ==
    LET found == SelectSeq(draggedTodoIds, LAMBDA id : \E i \in 1..Len(current) : current[i].id = id)
    IN  [i \in 1..Len(found) |-> found[Len(found) + 1 - i]]

\* ids of the dragged tasks found in the current list, in draggedTodoIds order
DraggedInList(current, draggedTodoIds) ==
    SelectSeq(draggedTodoIds, LAMBDA id : HasId(current, id))

\* ids of the current list's tasks that are not dragged
RemainingIds(current, draggedTodoIds) ==
    SelectSeq(Ids(current), LAMBDA id : id \notin SeqToSet(draggedTodoIds))

\* fault seeded for C1: the direction test is lost, every drop lands before the target
IsMovingForward_Never(current, draggedTodoIds, targetTodoId) == FALSE

\* fault seeded for C30: every drop lands after the target
IsMovingForward_Always(current, draggedTodoIds, targetTodoId) == TRUE

\* forward (downward) move: the first dragged id lies above the target
IsMovingForward(current, draggedTodoIds, targetTodoId) ==
    FindIndex(current, draggedTodoIds[1]) < FindIndex(current, targetTodoId)

\* fault seeded for C38: a drop on a target that is itself dragged loses the target
NewOrderTodoIds_LosesDraggedTarget(current, draggedTodoIds, targetTodoId) ==
    LET remaining == RemainingIds(current, draggedTodoIds)
        dragged == SelectSeq(DraggedInList(current, draggedTodoIds),
                             LAMBDA id : id # targetTodoId)
        adjusted == IndexOf(remaining, targetTodoId)
    IN  IF targetTodoId = Null THEN remaining \o dragged
        ELSE IF IsMovingForward(current, draggedTodoIds, targetTodoId)
             THEN SubSeq(remaining, 1, adjusted) \o dragged
                    \o SubSeq(remaining, adjusted + 1, Len(remaining))
             ELSE SubSeq(remaining, 1, adjusted - 1) \o dragged
                    \o SubSeq(remaining, IF adjusted = 0 THEN 1 ELSE adjusted, Len(remaining))

\* newOrderTodoIds as built by reorderTodosInList (target null or in the list)
NewOrderTodoIds(current, draggedTodoIds, targetTodoId) ==
    LET remaining == RemainingIds(current, draggedTodoIds)
        dragged == DraggedInList(current, draggedTodoIds)
        adjusted == IndexOf(remaining, targetTodoId)
    IN  IF targetTodoId = Null THEN remaining \o dragged
        ELSE IF IsMovingForward(current, draggedTodoIds, targetTodoId)
             THEN SubSeq(remaining, 1, adjusted) \o dragged
                    \o SubSeq(remaining, adjusted + 1, Len(remaining))
             ELSE SubSeq(remaining, 1, adjusted - 1) \o dragged
                    \o SubSeq(remaining, IF adjusted = 0 THEN 1 ELSE adjusted, Len(remaining))

----------------------------------------------------------------------------
(* Text: a string is the sequence of its characters *)

\* String.prototype.trim
RECURSIVE TrimLeft(_)
TrimLeft(s) == IF s # <<>> /\ Head(s) = " " THEN TrimLeft(Tail(s)) ELSE s

RECURSIVE TrimRight(_)
TrimRight(s) ==
    IF s # <<>> /\ s[Len(s)] = " " THEN TrimRight(SubSeq(s, 1, Len(s) - 1)) ELSE s

Trim(s) == TrimRight(TrimLeft(s))

\* !text || !text.trim()
IsBlank(s) == s = <<>> \/ Trim(s) = <<>>

----------------------------------------------------------------------------
(* UndoManager *)

NullAction == [null |-> TRUE]

\* the action types the switch in undo() dispatches on
RecognizedTypes ==
    {"addTodo", "deleteTodo", "toggleTodo", "editTodo", "addList", "deleteList",
     "editList", "moveTodos", "reorderTodos", "updateTodoOrder", "batchDeleteTodos"}

\* fault seeded for C25: only null is turned away
IsValidAction_NullOnly(action) == action # NullAction

\* !action || !action.type is false
IsValidAction(action) ==
    action # NullAction /\ "type" \in DOMAIN action /\ action.type # ""

\* fault seeded for C6: the size check is lost, nothing is ever evicted
addAction_NoEviction(stack, action, cap) ==
    IF ~IsValidAction(action) THEN stack ELSE Append(stack, action)

\* UndoManager.addAction: the stack afterwards
addAction(stack, action, cap) ==
    IF ~IsValidAction(action) THEN stack
    ELSE LET pushed == Append(stack, action)
         IN  IF Len(pushed) > cap THEN Tail(pushed) ELSE pushed

\* addAction applied to each action of a sequence in turn
RECURSIVE addActions(_, _, _)
addActions(stack, actions, cap) ==
    IF actions = <<>> THEN stack
    ELSE addActions(addAction(stack, Head(actions), cap), Tail(actions), cap)

NoCall == [fn |-> "none"]

\* a property that is present and truthy (a non-empty string other than null)
TruthyId(action, f) == f \in DOMAIN action /\ action[f] # "" /\ action[f] # Null

\* the mutator invoked by the _undoXxx handler of the action's type, if any
InverseCall(action) ==
    CASE action.type = "addTodo" ->
            IF TruthyId(action, "todoId")
            THEN [fn |-> "deleteTodoById", todoId |-> action.todoId] ELSE NoCall
      [] action.type = "deleteTodo" ->
            IF "todo" \in DOMAIN action
            THEN [fn |-> "restoreTodo", todo |-> action.todo] ELSE NoCall
      [] action.type = "toggleTodo" ->
            IF TruthyId(action, "todoId")
            THEN [fn |-> "toggleTodoById", todoId |-> action.todoId] ELSE NoCall
      [] action.type = "editTodo" ->
            IF TruthyId(action, "todoId") /\ "previousText" \in DOMAIN action
                  /\ action.previousText # <<>>
            THEN [fn |-> "updateTodoById", todoId |-> action.todoId,
                  newText |-> action.previousText]
            ELSE NoCall
      [] action.type = "addList" ->
            IF TruthyId(action, "listId")
            THEN [fn |-> "deleteListById", listId |-> action.listId] ELSE NoCall
      [] action.type = "deleteList" ->
            IF "list" \in DOMAIN action /\ "todos" \in DOMAIN action
            THEN [fn |-> "restoreList", list |-> action.list, todos |-> action.todos]
            ELSE NoCall
      [] action.type = "editList" ->
            IF TruthyId(action, "listId") /\ "previousName" \in DOMAIN action
                  /\ action.previousName # <<>>
            THEN [fn |-> "updateListById", listId |-> action.listId,
                  newName |-> action.previousName]
            ELSE NoCall
      [] action.type = "moveTodos" ->
            IF "todoIds" \in DOMAIN action /\ TruthyId(action, "originalListId")
            THEN [fn |-> "moveTodosToListById", todoIds |-> action.todoIds,
                  targetListId |-> action.originalListId]
            ELSE NoCall
      [] action.type = "reorderTodos" ->
            IF "todoIds" \in DOMAIN action /\ "originalOrders" \in DOMAIN action
            THEN [fn |-> "restoreTodoOrders", todoIds |-> action.todoIds,
                  originalOrders |-> action.originalOrders]
            ELSE NoCall
      [] action.type = "updateTodoOrder" ->
            IF TruthyId(action, "todoId") /\ "originalOrder" \in DOMAIN action
            THEN [fn |-> "updateTodoOrderById", todoId |-> action.todoId,
                  newOrder |-> action.originalOrder]
            ELSE NoCall
      [] action.type = "batchDeleteTodos" ->
            IF "deletedTodos" \in DOMAIN action
            THEN [fn |-> "restoreMultipleTodos", deletedTodos |-> action.deletedTodos]
            ELSE NoCall
      [] OTHER -> NoCall

\* fault seeded for C8: a failed undo forgets to push the popped action back
PushBack_Drops(rest, action) == rest

\* the stack after a failed undo: the popped action is pushed back
PushBack(rest, action) == Append(rest, action)

\* fault seeded for C34: an action of an unknown type is dropped and counted as undone
undo_DiscardsUnknown(stack, throws) ==
    IF Len(stack) = 0
    THEN [stack |-> stack, ret |-> FALSE, call |-> NoCall, threw |-> FALSE]
    ELSE LET action == stack[Len(stack)]
             rest == SubSeq(stack, 1, Len(stack) - 1)
             call == InverseCall(action)
         IN  IF call # NoCall /\ throws
             THEN [stack |-> PushBack(rest, action), ret |-> FALSE, call |-> call,
                   threw |-> TRUE]
             ELSE [stack |-> rest, ret |-> TRUE, call |-> call, threw |-> FALSE]

\* UndoManager.undo(operations): [stack, ret, call, threw]; throws tells whether
\* the invoked mutator raises an exception
undo(stack, throws) ==
    IF Len(stack) = 0
    THEN [stack |-> stack, ret |-> FALSE, call |-> NoCall, threw |-> FALSE]
    ELSE LET action == stack[Len(stack)]
             rest == SubSeq(stack, 1, Len(stack) - 1)
             call == InverseCall(action)
         IN  IF action.type \notin RecognizedTypes
             THEN [stack |-> PushBack(rest, action), ret |-> FALSE, call |-> NoCall,
                   threw |-> FALSE]
             ELSE IF call # NoCall /\ throws
             THEN [stack |-> PushBack(rest, action), ret |-> FALSE, call |-> call,
                   threw |-> TRUE]
             ELSE [stack |-> rest, ret |-> TRUE, call |-> call, threw |-> FALSE]

----------------------------------------------------------------------------
(* The mutators TodoApp.undo() hands to the UndoManager *)

\* the first element with the given id, changed by f
UpdateFirst(ts, id, f(_)) ==
    LET i == FindIndex(ts, id)
    IN  IF i = 0 THEN ts ELSE [ts EXCEPT ![i] = f(ts[i])]

\* moveTodosToListById, id by id
RECURSIVE MoveEach(_, _, _)
MoveEach(ts, todoIds, listId) ==
    IF todoIds = <<>> THEN ts
    ELSE MoveEach(UpdateFirst(ts, Head(todoIds), LAMBDA t : [t EXCEPT !.listId = listId]),
                  Tail(todoIds), listId)

\* fault seeded for C10: restoreTodoOrders leaves the keys as they are
RestoreEach_Noop(ts, todoIds, originalOrders) == ts

\* restoreTodoOrders, id by id
RECURSIVE RestoreEach(_, _, _)
RestoreEach(ts, todoIds, originalOrders) ==
    IF todoIds = <<>> THEN ts
    ELSE LET id == Head(todoIds)
         IN  RestoreEach(
                 IF id \in DOMAIN originalOrders
                 THEN UpdateFirst(ts, id, LAMBDA t : [t EXCEPT !.order = originalOrders[id]])
                 ELSE ts,
                 Tail(todoIds), originalOrders)

\* the effect of one mutator call on [todos, lists, cur]
ApplyCall(call, st) ==
    CASE call.fn = "deleteTodoById" ->
            [st EXCEPT !.todos = SelectSeq(st.todos, LAMBDA t : t.id # call.todoId)]
      [] call.fn = "restoreTodo" ->
            [st EXCEPT !.todos = Append(st.todos, call.todo)]
      [] call.fn = "toggleTodoById" ->
            [st EXCEPT !.todos = UpdateFirst(st.todos, call.todoId,
                                     LAMBDA t : [t EXCEPT !.completed = ~t.completed])]
      [] call.fn = "updateTodoById" ->
            [st EXCEPT !.todos = UpdateFirst(st.todos, call.todoId,
                                     LAMBDA t : [t EXCEPT !.text = call.newText])]
      [] call.fn = "moveTodosToListById" ->
            [st EXCEPT !.todos = MoveEach(st.todos, call.todoIds,
                                          NormalizeListId(call.targetListId))]
      [] call.fn = "restoreTodoOrders" ->
            [st EXCEPT !.todos = RestoreEach(st.todos, call.todoIds, call.originalOrders)]
      [] call.fn = "updateTodoOrderById" ->
            [st EXCEPT !.todos = UpdateFirst(st.todos, call.todoId,
                                     LAMBDA t : [t EXCEPT !.order = call.newOrder])]
      [] call.fn = "restoreMultipleTodos" ->
            [st EXCEPT !.todos = st.todos \o call.deletedTodos]
      [] call.fn = "deleteListById" ->
            [st EXCEPT !.lists = SelectSeq(st.lists, LAMBDA l : l.id # call.listId),
                       !.cur = IF st.cur = call.listId THEN Default ELSE st.cur]
      [] call.fn = "restoreList" ->
            [st EXCEPT !.lists = Append(st.lists, call.list),
                       !.todos = st.todos \o call.todos]
      [] call.fn = "updateListById" ->
            [st EXCEPT !.lists = UpdateFirst(st.lists, call.listId,
                                     LAMBDA l : [l EXCEPT !.name = call.newName])]
      [] OTHER -> st

----------------------------------------------------------------------------
(* TodoOperations: each operation yields
   [ts |-> tasks afterwards, ret |-> returned value, push |-> actions handed to
    addToUndoStack, events |-> the addToUndoStack / saveData calls in order] *)

Rejected(ts, ret) == [ts |-> ts, ret |-> ret, push |-> <<>>, events |-> <<>>]

\* fault seeded for C27: the data is saved before the action is recorded
Recorded_SaveFirst(ts, ret, action) ==
    [ts |-> ts, ret |-> ret, push |-> <<action>>, events |-> <<"save", "push">>]

Recorded(ts, ret, action) ==
    [ts |-> ts, ret |-> ret, push |-> <<action>>, events |-> <<"push", "save">>]

\* TodoOperations.addTodoFromText; n numbers the generated id and the clock
addTodoFromText(text, cur, ts, n) ==
    IF IsBlank(text) THEN Rejected(ts, "null")
    ELSE LET todo == [id |-> TodoId(n), text |-> Trim(text), completed |-> FALSE,
                      listId |-> NormalizeListId(cur), createdAt |-> Now(n),
                      order |-> getNextOrderValue(ts, cur)]
         IN  Recorded(Append(ts, todo), "object", [type |-> "addTodo", todoId |-> todo.id])

\* fault seeded for C12: the record keeps the state after the toggle
toggleTodo_RecordsNewState(todoId, ts) ==
    LET i == FindIndex(ts, todoId)
    IN  IF i = 0 THEN Rejected(ts, "null")
        ELSE Recorded([ts EXCEPT ![i].completed = ~ts[i].completed], "object",
                      [type |-> "toggleTodo", todoId |-> todoId,
                       previousState |-> ~ts[i].completed])

\* TodoOperations.toggleTodo
toggleTodo(todoId, ts) ==
    LET i == FindIndex(ts, todoId)
    IN  IF i = 0 THEN Rejected(ts, "null")
        ELSE Recorded([ts EXCEPT ![i].completed = ~ts[i].completed], "object",
                      [type |-> "toggleTodo", todoId |-> todoId,
                       previousState |-> ts[i].completed])

\* TodoOperations.updateTodo; an unchanged text returns the task without recording
updateTodo(todoId, newText, ts) ==
    LET i == FindIndex(ts, todoId)
    IN  IF i = 0 THEN Rejected(ts, "null")
        ELSE IF IsBlank(newText) THEN Rejected(ts, "null")
        ELSE IF ts[i].text = Trim(newText) THEN Rejected(ts, "object")
        ELSE Recorded([ts EXCEPT ![i].text = Trim(newText)], "object",
                      [type |-> "editTodo", todoId |-> todoId,
                       previousText |-> ts[i].text, newText |-> Trim(newText)])

\* todos.splice(index, 1) at the first task with the given id
RemoveFirst(ts, id) ==
    LET i == FindIndex(ts, id)
    IN  IF i = 0 THEN ts ELSE SubSeq(ts, 1, i - 1) \o SubSeq(ts, i + 1, Len(ts))

\* fault seeded for C11: the snapshot kept for undo loses the completed flag
DeleteTodoAction_Unfaithful(todoId, todo) ==
    [type |-> "deleteTodo", todoId |-> todoId, todo |-> [todo EXCEPT !.completed = FALSE]]

\* the undo record pushed by deleteTodo: a copy of the task
DeleteTodoAction(todoId, todo) ==
    [type |-> "deleteTodo", todoId |-> todoId, todo |-> todo]

\* TodoOperations.deleteTodo
deleteTodo(todoId, ts) ==
    LET i == FindIndex(ts, todoId)
    IN  IF i = 0 THEN Rejected(ts, "false")
        ELSE Recorded(RemoveFirst(ts, todoId), "true", DeleteTodoAction(todoId, ts[i]))

\* deleteMultipleTodos: the copies of the tasks found, in the order of todoIds
RECURSIVE DeletedTodos(_, _)
DeletedTodos(todoIds, ts) ==
    IF todoIds = <<>> THEN <<>>
    ELSE (IF HasId(ts, Head(todoIds)) THEN <<ts[FindIndex(ts, Head(todoIds))]>> ELSE <<>>)
            \o DeletedTodos(Tail(todoIds), ts)

\* deleteMultipleTodos: the removal loop, id by id
RECURSIVE RemoveEach(_, _)
RemoveEach(ts, todoIds) ==
    IF todoIds = <<>> THEN ts ELSE RemoveEach(RemoveFirst(ts, Head(todoIds)), Tail(todoIds))

\* TodoOperations.deleteMultipleTodos; ret is the number of tasks deleted
deleteMultipleTodos(todoIds, ts) ==
    LET after == RemoveEach(ts, todoIds)
        deletedCount == Len(ts) - Len(after)
    IN  IF Len(todoIds) = 0 \/ deletedCount = 0 THEN Rejected(ts, "0")
        ELSE Recorded(after, ToString(deletedCount),
                      [type |-> "batchDeleteTodos",
                       deletedTodos |-> DeletedTodos(todoIds, ts)])

\* the text appended to the text of a duplicated task
CopySuffix == <<" ", "(", "c", ")">>

\* TodoOperations.duplicateTodo; n numbers the generated id and the clock
duplicateTodo(todoId, ts, n) ==
    LET i == FindIndex(ts, todoId)
    IN  IF i = 0 THEN Rejected(ts, "null")
        ELSE LET todo == [id |-> TodoId(n), text |-> ts[i].text \o CopySuffix,
                          completed |-> FALSE, listId |-> ts[i].listId,
                          createdAt |-> Now(n),
                          order |-> getNextOrderValue(ts, ts[i].listId)]
             IN  Recorded(Append(ts, todo), "object",
                          [type |-> "addTodo", todoId |-> todo.id])

\* pasteClipboardTodos: the tasks made of the clipboard texts are keyed by
\* getNextOrderValue and pushed one after the other; the k-th gets id and clock n + k - 1
RECURSIVE PasteEach(_, _, _, _)
PasteEach(ts, texts, cur, n) ==
    IF texts = <<>> THEN ts
    ELSE PasteEach(Append(ts, [id |-> TodoId(n), text |-> Head(texts), completed |-> FALSE,
                               listId |-> NormalizeListId(cur), createdAt |-> Now(n),
                               order |-> getNextOrderValue(ts, cur)]),
                   Tail(texts), cur, n + 1)

\* TodoApp.pasteClipboardTodos with the texts held by the clipboard
pasteClipboardTodos(texts, cur, ts, n) ==
    IF Len(texts) = 0 THEN Rejected(ts, "undefined")
    ELSE Recorded(PasteEach(ts, texts, cur, n), "undefined",
                  [type |-> "pasteTodos",
                   addedTodoIds |-> [k \in 1..Len(texts) |-> TodoId(n + k - 1)]])

\* normalizeTodoOrders: the key a task is sorted by, a missing order replaced by
\* the creation time
NormalizeKey(t) == IF t.order = Undefined THEN t.createdAt ELSE t.order

\* fault seeded for C16: tasks with equal keys are given the same rank
NormalizeRank_NoTieBreak(ts, i, normalizedListId) ==
    Cardinality({j \in 1..Len(ts) :
                    /\ ts[j].listId = normalizedListId
                    /\ \/ NormalizeKey(ts[j]) < NormalizeKey(ts[i])
                       \/ j = i})

\* normalizeTodoOrders: the number of tasks of the partition sorted before the
\* i-th task by the stable sort on the keys, plus one
NormalizeRank(ts, i, normalizedListId) ==
    Cardinality({j \in 1..Len(ts) :
                    /\ ts[j].listId = normalizedListId
                    /\ \/ NormalizeKey(ts[j]) < NormalizeKey(ts[i])
                       \/ (NormalizeKey(ts[j]) = NormalizeKey(ts[i]) /\ j <= i)})

\* TodoOperations.normalizeTodoOrders: [ts, ret, events]; nothing is recorded for undo
normalizeTodoOrders(ts, listId) ==
    LET normalizedListId == NormalizeListId(listId)
        after == [i \in 1..Len(ts) |->
                     IF ts[i].listId = normalizedListId
                     THEN [ts[i] EXCEPT !.order = NormalizeRank(ts, i, normalizedListId) * OrderStep]
                     ELSE ts[i]]
        normalized == \E i \in 1..Len(ts) : after[i].order # ts[i].order
    IN  [ts |-> IF normalized THEN after ELSE ts,
         ret |-> IF normalized THEN "true" ELSE "false",
         push |-> <<>>,
         events |-> IF normalized THEN <<"save">> ELSE <<>>]

\* TodoOperations.updateTodoOrder with a numeric newOrder
updateTodoOrder(todoId, newOrder, ts) ==
    LET i == FindIndex(ts, todoId)
    IN  IF i = 0 THEN Rejected(ts, "false")
        ELSE IF OrderOrZero(ts[i]) = newOrder THEN Rejected(ts, "false")
        ELSE Recorded([ts EXCEPT ![i].order = newOrder], "true",
                      [type |-> "updateTodoOrder", todoId |-> todoId,
                       originalOrder |-> OrderOrZero(ts[i]), newOrder |-> newOrder])

\* TodoOperations.insertTodoAtPosition: the task is keyed targetIndex * 1000 + 500,
\* the change of its key is recorded, then the partition is normalized
insertTodoAtPosition(todoId, targetIndex, listId, ts) ==
    LET i == FindIndex(ts, todoId)
    IN  IF i = 0 THEN Rejected(ts, "false")
        ELSE IF ts[i].listId # NormalizeListId(listId) THEN Rejected(ts, "false")
        ELSE LET targetOrder == targetIndex * OrderStep + 500
                 n == normalizeTodoOrders([ts EXCEPT ![i].order = targetOrder], listId)
             IN  [ts |-> n.ts, ret |-> "true",
                  push |-> <<[type |-> "updateTodoOrder", todoId |-> todoId,
                              originalOrder |-> OrderOrZero(ts[i]),
                              newOrder |-> targetOrder]>>,
                  events |-> <<"push">> \o n.events]

\* the undo record pushed by moveTodosToList
MoveTodosAction(todoIds, actualTargetListId, originalListIds) ==
    [type |-> "moveTodos", todoIds |-> todoIds, targetListId |-> actualTargetListId,
     originalListIds |-> originalListIds]

\* TodoOperations.moveTodosToList
moveTodosToList(todoIds, targetListId, ts) ==
    IF Len(todoIds) = 0 THEN Rejected(ts, "false")
    ELSE LET actualTargetListId == NormalizeListId(targetListId)
             movedIds == {id \in SeqToSet(todoIds) :
                             HasId(ts, id) /\ ts[FindIndex(ts, id)].listId # actualTargetListId}
             originalListIds == [id \in movedIds |-> ts[FindIndex(ts, id)].listId]
             moved == [i \in 1..Len(ts) |->
                          IF ts[i].id \in movedIds /\ i = FindIndex(ts, ts[i].id)
                          THEN [ts[i] EXCEPT !.listId = actualTargetListId]
                          ELSE ts[i]]
         IN  IF movedIds = {} THEN Rejected(ts, "false")
             ELSE Recorded(moved, "true",
                           MoveTodosAction(todoIds, actualTargetListId, originalListIds))

\* result of reorderTodos in the same shape
ReorderResult(todoIds, listId, ts) ==
    LET r == reorderTodos(todoIds, listId, ts)
    IN  [ts |-> r.ts, ret |-> IF r.ret THEN "true" ELSE "false", push |-> r.push,
         events |-> IF r.ret THEN <<"push", "save">> ELSE <<>>]

\* fault seeded for C19: the test for a drop of a task on itself is lost
ReorderCase_NoSelfCheck(draggedTodoIds, targetTodoId, current) ==
    IF Len(draggedTodoIds) = 0 THEN "empty"
    ELSE IF targetTodoId = Null THEN "append"
    ELSE IF ~HasId(current, targetTodoId) THEN "targetMissing"
    ELSE IF IsMovingForward(current, draggedTodoIds, targetTodoId) THEN "forward"
    ELSE "backward"

\* which branch of reorderTodosInList a call takes; current is getFilteredTodos()
ReorderCase(draggedTodoIds, targetTodoId, current) ==
    IF Len(draggedTodoIds) = 0 THEN "empty"
    ELSE IF Len(draggedTodoIds) = 1 /\ draggedTodoIds[1] = targetTodoId THEN "self"
    ELSE IF targetTodoId = Null THEN "append"
    ELSE IF ~HasId(current, targetTodoId) THEN "targetMissing"
    ELSE IF IsMovingForward(current, draggedTodoIds, targetTodoId) THEN "forward"
    ELSE "backward"

\* TodoApp.reorderTodosInList on the tasks ts with current list cur:
\* [ts, push, events, case]; shown tells whether the closing renderTodos() sorts.
\* getFilteredTodos() has sorted the array itself when cur is 'default'.
reorderTodosInList(draggedTodoIds, targetTodoId, ts, cur, shown) ==
    LET current == FilteredTodos(ts, cur)
        sorted == IF cur = Default THEN current ELSE ts
        case == ReorderCase(draggedTodoIds, targetTodoId, current)
        r == ReorderResult(NewOrderTodoIds(current, draggedTodoIds, targetTodoId), cur, sorted)
    IN  IF case \in {"empty", "self"}
        THEN [ts |-> ts, push |-> <<>>, events |-> <<>>, case |-> case]
        ELSE IF case = "targetMissing"
        THEN [ts |-> sorted, push |-> <<>>, events |-> <<>>, case |-> case]
        ELSE [ts |-> IF r.ret = "true" THEN TodosAfterRender(r.ts, cur, shown) ELSE r.ts,
              push |-> r.push, events |-> r.events, case |-> case]

\* fault seeded for C33: TodoApp.undo saves whatever the UndoManager answered
undoInApp_AlwaysSaves(stack, st, shown) ==
    LET u == undo(stack, FALSE)
        applied == IF u.ret THEN ApplyCall(u.call, st) ELSE st
    IN  [stack |-> u.stack, ret |-> u.ret, call |-> u.call, threw |-> u.threw,
         st |-> IF u.ret
                THEN [applied EXCEPT !.todos = TodosAfterRender(applied.todos, applied.cur, shown)]
                ELSE applied,
         events |-> <<"save">>]

\* TodoApp.undo on the log and the data st = [todos, lists, cur]: the mutators of
\* TodoApp never throw; a successful undo saves and ends with renderTodos()
undoInApp(stack, st, shown) ==
    LET u == undo(stack, FALSE)
        applied == IF u.ret THEN ApplyCall(u.call, st) ELSE st
    IN  [stack |-> u.stack, ret |-> u.ret, call |-> u.call, threw |-> u.threw,
         st |-> IF u.ret
                THEN [applied EXCEPT !.todos = TodosAfterRender(applied.todos, applied.cur, shown)]
                ELSE applied,
         events |-> IF u.ret THEN <<"save">> ELSE <<>>]

----------------------------------------------------------------------------
(* ListOperations *)

\* String.prototype.toLowerCase on the characters of the model
LowerChar(c) == IF c = "A" THEN "a" ELSE IF c = "B" THEN "b" ELSE c

ToLowerCase(s) == [i \in 1..Len(s) |-> LowerChar(s[i])]

\* fault seeded for C18: names are compared as written
isListNameDuplicate_CaseSensitive(name, ls, excludeListId) ==
    \E i \in 1..Len(ls) : ls[i].name = name /\ ls[i].id # excludeListId

\* ListOperations.isListNameDuplicate
isListNameDuplicate(name, ls, excludeListId) ==
    \E i \in 1..Len(ls) :
        ToLowerCase(ls[i].name) = ToLowerCase(name) /\ ls[i].id # excludeListId

\* fault seeded for C23: the name is stored as typed
addListFromName_Untrimmed(name, ls, n) ==
    IF IsBlank(name) \/ isListNameDuplicate(Trim(name), ls, Null)
    THEN [ls |-> ls, ret |-> "null", push |-> <<>>, events |-> <<>>]
    ELSE LET list == [id |-> ListId(n), name |-> name, createdAt |-> Now(n)]
         IN  [ls |-> Append(ls, list), ret |-> "object",
              push |-> <<[type |-> "addList", listId |-> list.id]>>,
              events |-> <<"push", "save">>]

\* ListOperations.addListFromName: [ls, ret, push, events]
addListFromName(name, ls, n) ==
    IF IsBlank(name) \/ isListNameDuplicate(Trim(name), ls, Null)
    THEN [ls |-> ls, ret |-> "null", push |-> <<>>, events |-> <<>>]
    ELSE LET list == [id |-> ListId(n), name |-> Trim(name), createdAt |-> Now(n)]
         IN  [ls |-> Append(ls, list), ret |-> "object",
              push |-> <<[type |-> "addList", listId |-> list.id]>>,
              events |-> <<"push", "save">>]

\* fault seeded for C22: the test for the 'default' list is lost
updateList_NoDefaultGuard(listId, newName, ls) ==
    LET i == FindIndex(ls, listId)
        unchanged == [ls |-> ls, ret |-> "true", push |-> <<>>, events |-> <<>>]
        rejected == [ls |-> ls, ret |-> "null", push |-> <<>>, events |-> <<>>]
    IN  IF i = 0 \/ IsBlank(newName) THEN rejected
        ELSE IF ls[i].name = Trim(newName) THEN unchanged
        ELSE IF isListNameDuplicate(Trim(newName), ls, listId) THEN rejected
        ELSE [ls |-> [ls EXCEPT ![i].name = Trim(newName)], ret |-> "true",
              push |-> <<[type |-> "editList", listId |-> listId,
                          previousName |-> ls[i].name, newName |-> Trim(newName)]>>,
              events |-> <<"push", "save">>]

\* ListOperations.updateList: [ls, ret, push, events]; an unchanged name returns
\* true without recording
updateList(listId, newName, ls) ==
    LET i == FindIndex(ls, listId)
        unchanged == [ls |-> ls, ret |-> "true", push |-> <<>>, events |-> <<>>]
        rejected == [ls |-> ls, ret |-> "null", push |-> <<>>, events |-> <<>>]
    IN  IF listId = Default \/ i = 0 \/ IsBlank(newName) THEN rejected
        ELSE IF ls[i].name = Trim(newName) THEN unchanged
        ELSE IF isListNameDuplicate(Trim(newName), ls, listId) THEN rejected
        ELSE [ls |-> [ls EXCEPT ![i].name = Trim(newName)], ret |-> "true",
              push |-> <<[type |-> "editList", listId |-> listId,
                          previousName |-> ls[i].name, newName |-> Trim(newName)]>>,
              events |-> <<"push", "save">>]

\* fault seeded for C13: the record of a deleted list keeps none of its tasks
DeleteListAction_NoTodos(listId, list, todosToDelete) ==
    [type |-> "deleteList", listId |-> listId, list |-> list, todos |-> <<>>]

\* the undo record pushed by deleteList: copies of the list and of its tasks
DeleteListAction(listId, list, todosToDelete) ==
    [type |-> "deleteList", listId |-> listId, list |-> list, todos |-> todosToDelete]

\* fault seeded for C21: the tasks of the deleted list are kept
deleteList_KeepsTodos(listId, ls, ts) ==
    LET i == FindIndex(ls, listId)
    IN  IF listId = Default \/ i = 0
        THEN [ls |-> ls, ts |-> ts, ret |-> "false", push |-> <<>>, events |-> <<>>]
        ELSE [ls |-> SubSeq(ls, 1, i - 1) \o SubSeq(ls, i + 1, Len(ls)),
              ts |-> ts,
              ret |-> "true",
              push |-> <<DeleteListAction(listId, ls[i],
                                          SelectSeq(ts, LAMBDA t : t.listId = listId))>>,
              events |-> <<"push", "save">>]

\* ListOperations.deleteList: [ls, ts, ret, push, events]
deleteList(listId, ls, ts) ==
    LET i == FindIndex(ls, listId)
    IN  IF listId = Default \/ i = 0
        THEN [ls |-> ls, ts |-> ts, ret |-> "false", push |-> <<>>, events |-> <<>>]
        ELSE [ls |-> SubSeq(ls, 1, i - 1) \o SubSeq(ls, i + 1, Len(ls)),
              ts |-> SelectSeq(ts, LAMBDA t : t.listId # listId),
              ret |-> "true",
              push |-> <<DeleteListAction(listId, ls[i],
                                          SelectSeq(ts, LAMBDA t : t.listId = listId))>>,
              events |-> <<"push", "save">>]

----------------------------------------------------------------------------
(* Inputs of the operations *)

MissingId == "missing"

TodoIdInputs == {TodoId(i) : i \in 1..MaxTodos} \cup {MissingId}

ListIdInputs == {Default} \cup {ListId(i) : i \in 1..MaxLists} \cup {MissingId}

TextInputs == {<<>>, <<" ">>, <<"a">>, <<" ", "b", " ">>}

NameInputs == {<<" ">>, <<"A">>, <<"b">>, <<" ", "B">>}

\* dragged / selected ids: distinct, as SelectionManager keeps them in a Set; one
\* stale id alone and one in front of a real id stand for ids that no longer exist
DragInputs ==
    DistinctSeqs({TodoId(i) : i \in 1..MaxTodos}, 0, MaxDrag)
        \cup {<<MissingId>>, <<MissingId, TodoId(1)>>}

\* the drags and moves tried in a session that starts from the default data
SessionDragInputs ==
    {<<TodoId(1)>>, <<TodoId(2)>>, <<TodoId(2), TodoId(1)>>, <<MissingId, TodoId(1)>>}

\* the keys handed to updateTodoOrder: one that lies between two steps
NewOrderInputs == {OrderStep + 500}

\* the 0-based positions handed to insertTodoAtPosition
TargetIndexInputs == 0..(MaxTodos - 1)

\* the data handed to importList: data without a list, a list that takes the name
\* of the default list, a list with one completed task
ImportInputs ==
    {[todos |-> <<>>],
     [list |-> [name |-> <<"a">>], todos |-> <<>>],
     [list |-> [name |-> <<"b">>], todos |-> <<[text |-> <<"a">>, completed |-> TRUE]>>]}

\* the texts of the tasks held by the clipboard when pasting
ClipboardInputs == {<<>>, <<<<"a">>>>, <<<<"b">>, <<"a">>>>}

----------------------------------------------------------------------------
(* Initial state: TodoApp after construction and loadData() *)

DefaultList == [id |-> Default, name |-> <<"a">>, createdAt |-> Now(0)]

StoredList(k) == [id |-> ListId(k), name |-> <<"n", ToString(k)>>, createdAt |-> Now(k)]

\* the i-th stored task, created as the rank-th task of its partition
StoredTodo(i, listId, completed, rank) ==
    [id |-> TodoId(i), text |-> <<"a">>, completed |-> completed, listId |-> listId,
     createdAt |-> Now(i), order |-> rank * OrderStep]

Idle == [op |-> "init", ret |-> "undefined", events |-> <<>>, call |-> NoCall,
         threw |-> FALSE, tag |-> ""]

\* the data file holds what an earlier session saved: m lists and n tasks, at most
\* MaxCompleted of them completed, each task keyed by getNextOrderValue when it was
\* added to its partition
Init ==
    \E m \in 0..MaxLists, n \in 0..MaxTodos :
        \E f \in [1..n -> {Null} \cup {ListId(k) : k \in 1..m}], c \in [1..n -> BOOLEAN] :
            /\ Cardinality({i \in 1..n : c[i]}) <= MaxCompleted
            /\ lists = <<DefaultList>> \o [k \in 1..m |-> StoredList(k)]
            /\ todos = [i \in 1..n |->
                            StoredTodo(i, f[i], c[i], Cardinality({j \in 1..i : f[j] = f[i]}))]
            /\ currentListId = Default
            /\ undoStack = <<>>
            /\ maxSize = DefaultMaxSize
            /\ nextTodo = n + 1
            /\ nextList = m + 1
            /\ live = <<>>
            /\ room = MaxHistory
            /\ last = Idle

----------------------------------------------------------------------------
(* TodoApp operations *)

Observe(op, ret, events, tag) ==
    [op |-> op, ret |-> ret, events |-> events, call |-> NoCall, threw |-> FALSE,
     tag |-> tag]

\* the explored sessions push a bounded number of undo records
HasRoom == room > 0

\* TodoApp.selectList; on success clearSelection() ends with renderTodos()
SelectList(listId) ==
    /\ IF \E i \in 1..Len(lists) : lists[i].id = listId
       THEN /\ currentListId' = listId
            /\ \E shown \in RenderCases(listId) : todos' = TodosAfterRender(todos, listId, shown)
            /\ last' = Observe("selectList", "true", <<>>, "")
       ELSE /\ currentListId' = currentListId
            /\ todos' = todos
            /\ last' = Observe("selectList", "false", <<>>, "")
    /\ UNCHANGED <<lists, undoStack, maxSize, nextTodo, nextList, live, room>>

\* TodoApp.getFilteredTodos (also the sort renderTodos performs)
GetFilteredTodos ==
    /\ todos' = TodosAfterFilter(todos, currentListId)
    /\ last' = Observe("getFilteredTodos", "array", <<>>, "")
    /\ UNCHANGED <<lists, currentListId, undoStack, maxSize, nextTodo, nextList, live, room>>

\* TodoApp.addTodoFromText
AddTodoFromText(text) ==
    /\ HasRoom /\ nextTodo <= MaxTodos
    /\ LET r == addTodoFromText(text, currentListId, todos, nextTodo)
       IN  /\ todos' = r.ts
           /\ undoStack' = addActions(undoStack, r.push, maxSize)
           /\ room' = room - Len(r.push)
           /\ live' = live \o r.push
           /\ nextTodo' = IF r.ret = "object" THEN nextTodo + 1 ELSE nextTodo
           /\ last' = Observe("addTodoFromText", r.ret, r.events, "")
    /\ UNCHANGED <<lists, currentListId, maxSize, nextList>>

\* TodoApp.toggleTodo
ToggleTodo(todoId) ==
    /\ HasRoom
    /\ LET r == toggleTodo(todoId, todos)
       IN  /\ todos' = r.ts
           /\ undoStack' = addActions(undoStack, r.push, maxSize)
           /\ room' = room - Len(r.push)
           /\ live' = live \o r.push
           /\ last' = Observe("toggleTodo", r.ret, r.events, "")
    /\ UNCHANGED <<lists, currentListId, maxSize, nextTodo, nextList>>

\* TodoApp.moveTodosToList; on success clearSelection() ends with renderTodos()
MoveTodosToList(todoIds, targetListId) ==
    /\ HasRoom
    /\ \E shown \in RenderCases(currentListId) :
          LET r == moveTodosToList(todoIds, targetListId, todos)
          IN  /\ todos' = IF r.ret = "true" THEN TodosAfterRender(r.ts, currentListId, shown)
                          ELSE r.ts
              /\ undoStack' = addActions(undoStack, r.push, maxSize)
              /\ room' = room - Len(r.push)
              /\ live' = live \o r.push
              /\ last' = Observe("moveTodosToList", r.ret, r.events, "")
    /\ UNCHANGED <<lists, currentListId, maxSize, nextTodo, nextList>>

\* TodoApp.reorderTodosInList; a successful reorder ends with renderTodos(). The
\* observation tells a drop on one of the dragged tasks apart.
ReorderTodosInList(draggedTodoIds, targetTodoId) ==
    /\ HasRoom
    /\ \E shown \in RenderCases(currentListId) :
          LET r == reorderTodosInList(draggedTodoIds, targetTodoId, todos, currentListId, shown)
              tag == IF r.case \in {"forward", "backward"}
                        /\ targetTodoId \in SeqToSet(draggedTodoIds)
                     THEN r.case \o "OntoDragged" ELSE r.case
          IN  /\ todos' = r.ts
              /\ undoStack' = addActions(undoStack, r.push, maxSize)
              /\ room' = room - Len(r.push)
              /\ live' = live \o r.push
              /\ last' = Observe("reorderTodosInList", "undefined", r.events, tag)
    /\ UNCHANGED <<lists, currentListId, maxSize, nextTodo, nextList>>

\* TodoOperations.reorderTodos called on the application's tasks
ReorderTodos(todoIds, listId) ==
    /\ HasRoom
    /\ LET r == ReorderResult(todoIds, listId, todos)
       IN  /\ todos' = r.ts
           /\ undoStack' = addActions(undoStack, r.push, maxSize)
           /\ room' = room - Len(r.push)
           /\ live' = live \o r.push
           /\ last' = Observe("reorderTodos", r.ret, r.events, "")
    /\ UNCHANGED <<lists, currentListId, maxSize, nextTodo, nextList>>

\* TodoApp.addListFromName
AddListFromName(name) ==
    /\ HasRoom /\ nextList <= MaxLists
    /\ LET r == addListFromName(name, lists, nextList)
       IN  /\ lists' = r.ls
           /\ undoStack' = addActions(undoStack, r.push, maxSize)
           /\ room' = room - Len(r.push)
           /\ live' = live \o r.push
           /\ nextList' = IF r.ret = "object" THEN nextList + 1 ELSE nextList
           /\ last' = Observe("addListFromName", r.ret, r.events, "")
    /\ UNCHANGED <<todos, currentListId, maxSize, nextTodo>>

\* TodoApp.updateTodo
UpdateTodo(todoId, newText) ==
    /\ HasRoom
    /\ LET r == updateTodo(todoId, newText, todos)
       IN  /\ todos' = r.ts
           /\ undoStack' = addActions(undoStack, r.push, maxSize)
           /\ room' = room - Len(r.push)
           /\ live' = live \o r.push
           /\ last' = Observe("updateTodo", r.ret, r.events, "")
    /\ UNCHANGED <<lists, currentListId, maxSize, nextTodo, nextList>>

\* TodoApp.deleteTodo
DeleteTodo(todoId) ==
    /\ HasRoom
    /\ LET r == deleteTodo(todoId, todos)
       IN  /\ todos' = r.ts
           /\ undoStack' = addActions(undoStack, r.push, maxSize)
           /\ room' = room - Len(r.push)
           /\ live' = live \o r.push
           /\ last' = Observe("deleteTodo", r.ret, r.events, "")
    /\ UNCHANGED <<lists, currentListId, maxSize, nextTodo, nextList>>

\* TodoApp.deleteSelectedTodos with the selected ids, the deletion confirmed; when
\* something was deleted it ends with renderTodos()
DeleteSelectedTodos(selectedIds) ==
    /\ HasRoom
    /\ \E shown \in RenderCases(currentListId) :
          LET r == deleteMultipleTodos(selectedIds, todos)
          IN  /\ todos' = IF r.push # <<>> THEN TodosAfterRender(r.ts, currentListId, shown)
                          ELSE r.ts
              /\ undoStack' = addActions(undoStack, r.push, maxSize)
              /\ room' = room - Len(r.push)
              /\ live' = live \o r.push
              /\ last' = Observe("deleteMultipleTodos", r.ret, r.events, "")
    /\ UNCHANGED <<lists, currentListId, maxSize, nextTodo, nextList>>

\* TodoOperations.duplicateTodo on the application's tasks
DuplicateTodo(todoId) ==
    /\ HasRoom /\ nextTodo <= MaxTodos
    /\ LET r == duplicateTodo(todoId, todos, nextTodo)
       IN  /\ todos' = r.ts
           /\ undoStack' = addActions(undoStack, r.push, maxSize)
           /\ room' = room - Len(r.push)
           /\ live' = live \o r.push
           /\ nextTodo' = IF r.ret = "object" THEN nextTodo + 1 ELSE nextTodo
           /\ last' = Observe("duplicateTodo", r.ret, r.events, "")
    /\ UNCHANGED <<lists, currentListId, maxSize, nextList>>

\* TodoApp.pasteClipboardTodos with the texts the clipboard holds; a paste ends
\* with renderTodos()
PasteClipboardTodos(texts) ==
    /\ HasRoom /\ nextTodo + Len(texts) - 1 <= MaxTodos
    /\ \E shown \in RenderCases(currentListId) :
          LET r == pasteClipboardTodos(texts, currentListId, todos, nextTodo)
          IN  /\ todos' = IF r.push # <<>> THEN TodosAfterRender(r.ts, currentListId, shown)
                          ELSE r.ts
              /\ undoStack' = addActions(undoStack, r.push, maxSize)
              /\ room' = room - Len(r.push)
              /\ live' = live \o r.push
              /\ nextTodo' = nextTodo + Len(texts)
              /\ last' = Observe("pasteClipboardTodos", r.ret, r.events, "")
    /\ UNCHANGED <<lists, currentListId, maxSize, nextList>>

\* TodoApp.updateList
UpdateList(listId, newName) ==
    /\ HasRoom
    /\ LET r == updateList(listId, newName, lists)
       IN  /\ lists' = r.ls
           /\ undoStack' = addActions(undoStack, r.push, maxSize)
           /\ room' = room - Len(r.push)
           /\ live' = live \o r.push
           /\ last' = Observe("updateList", r.ret, r.events, listId)
    /\ UNCHANGED <<todos, currentListId, maxSize, nextTodo, nextList>>

\* fault seeded for C36: the selected list stays selected when it is deleted
DeleteList_KeepsSelection(listId) ==
    /\ HasRoom
    /\ LET r == deleteList(listId, lists, todos)
       IN  /\ lists' = r.ls
           /\ todos' = r.ts
           /\ undoStack' = addActions(undoStack, r.push, maxSize)
           /\ room' = room - Len(r.push)
           /\ live' = live \o r.push
           /\ last' = Observe("deleteList", r.ret, r.events, listId)
    /\ UNCHANGED <<currentListId, maxSize, nextTodo, nextList>>

\* TodoApp.deleteList: the view falls back to 'default' when the current list goes
DeleteList(listId) ==
    /\ HasRoom
    /\ LET r == deleteList(listId, lists, todos)
       IN  /\ lists' = r.ls
           /\ todos' = r.ts
           /\ currentListId' = IF r.ret = "true" /\ currentListId = listId
                               THEN Default ELSE currentListId
           /\ undoStack' = addActions(undoStack, r.push, maxSize)
           /\ room' = room - Len(r.push)
           /\ live' = live \o r.push
           /\ last' = Observe("deleteList", r.ret, r.events, listId)
    /\ UNCHANGED <<maxSize, nextTodo, nextList>>

\* TodoOperations.updateTodoOrder on the application's tasks
UpdateTodoOrder(todoId, newOrder) ==
    /\ HasRoom
    /\ LET r == updateTodoOrder(todoId, newOrder, todos)
       IN  /\ todos' = r.ts
           /\ undoStack' = addActions(undoStack, r.push, maxSize)
           /\ room' = room - Len(r.push)
           /\ live' = live \o r.push
           /\ last' = Observe("updateTodoOrder", r.ret, r.events, "")
    /\ UNCHANGED <<lists, currentListId, maxSize, nextTodo, nextList>>

\* TodoOperations.insertTodoAtPosition on the application's tasks
InsertTodoAtPosition(todoId, targetIndex, listId) ==
    /\ HasRoom
    /\ LET r == insertTodoAtPosition(todoId, targetIndex, listId, todos)
       IN  /\ todos' = r.ts
           /\ undoStack' = addActions(undoStack, r.push, maxSize)
           /\ room' = room - Len(r.push)
           /\ live' = live \o r.push
           /\ last' = Observe("insertTodoAtPosition", r.ret, r.events, "")
    /\ UNCHANGED <<lists, currentListId, maxSize, nextTodo, nextList>>

\* TodoOperations.normalizeTodoOrders on the application's tasks
NormalizeTodoOrders(listId) ==
    /\ LET r == normalizeTodoOrders(todos, listId)
       IN  /\ todos' = r.ts
           /\ last' = Observe("normalizeTodoOrders", r.ret, r.events, "")
    /\ UNCHANGED <<lists, currentListId, undoStack, maxSize, nextTodo, nextList, live, room>>

\* the name importList gives the list: the first of name, "name (1)", "name (2)", ...
\* that no list bears
RECURSIVE ImportName(_, _, _)
ImportName(name, counter, ls) ==
    LET listName == IF counter = 0 THEN name
                    ELSE name \o <<" ", "(", ToString(counter), ")">>
    IN  IF isListNameDuplicate(listName, ls, Null) THEN ImportName(name, counter + 1, ls)
        ELSE listName

\* ListOperations.importList: [ls, ts, ret, push, events]; nl numbers the id of the
\* list and nt the ids of the tasks; the imported tasks carry no order
importList(importData, ls, ts, nl, nt) ==
    IF "list" \notin DOMAIN importData
    THEN [ls |-> ls, ts |-> ts, ret |-> "null", push |-> <<>>, events |-> <<>>]
    ELSE LET newList == [id |-> ListId(nl), name |-> ImportName(importData.list.name, 0, ls),
                         createdAt |-> Now(nl)]
             importedTodos ==
                 [k \in 1..Len(importData.todos) |->
                     [id |-> TodoId(nt + k - 1), text |-> importData.todos[k].text,
                      completed |-> importData.todos[k].completed, listId |-> newList.id,
                      createdAt |-> Now(nt + k - 1), order |-> Undefined]]
         IN  [ls |-> Append(ls, newList), ts |-> ts \o importedTodos, ret |-> "object",
              push |-> <<[type |-> "importList", listId |-> newList.id,
                          todoIds |-> [k \in 1..Len(importedTodos) |-> importedTodos[k].id]]>>,
              events |-> <<"push", "save">>]

\* listOperations.importList(importData, lists, todos) on the data of the app
ImportList(importData) ==
    /\ HasRoom /\ nextList <= MaxLists
    /\ "list" \in DOMAIN importData => nextTodo + Len(importData.todos) - 1 <= MaxTodos
    /\ LET r == importList(importData, lists, todos, nextList, nextTodo)
       IN  /\ lists' = r.ls
           /\ todos' = r.ts
           /\ undoStack' = addActions(undoStack, r.push, maxSize)
           /\ room' = room - Len(r.push)
           /\ live' = live \o r.push
           /\ nextList' = IF r.ret = "object" THEN nextList + 1 ELSE nextList
           /\ nextTodo' = IF r.ret = "object" THEN nextTodo + Len(importData.todos)
                          ELSE nextTodo
           /\ last' = Observe("importList", r.ret, r.events, "")
    /\ UNCHANGED <<currentListId, maxSize>>

\* TodoApp.undo; the observation is tagged with the list that was selected
Undo ==
    /\ \E shown \in BOOLEAN :
          LET u == undoInApp(undoStack, [todos |-> todos, lists |-> lists,
                                         cur |-> currentListId], shown)
          IN  /\ undoStack' = u.stack
              /\ todos' = u.st.todos
              /\ lists' = u.st.lists
              /\ currentListId' = u.st.cur
              /\ last' = [op |-> "undo", ret |-> IF u.ret THEN "true" ELSE "false",
                          events |-> u.events, call |-> u.call, threw |-> u.threw,
                          tag |-> currentListId]
              /\ live' = IF u.ret THEN SubSeq(live, 1, Len(live) - 1) ELSE live
    /\ UNCHANGED <<maxSize, nextTodo, nextList, room>>

Next ==
    \/ \E listId \in ListIdInputs : SelectList(listId)
    \/ GetFilteredTodos
    \/ \E todoIds \in DragInputs, listId \in ListIdInputs : MoveTodosToList(todoIds, listId)
    \/ \E d \in DragInputs, t \in TodoIdInputs \cup {Null} : ReorderTodosInList(d, t)
    \/ \E todoIds \in DragInputs, listId \in ListIdInputs \cup {Null} : ReorderTodos(todoIds, listId)
    \/ Undo

\* the application on stored data: views, moves, reorders and undo
Spec == Init /\ [][Next]_vars

----------------------------------------------------------------------------
(* A session that starts from the default data (no data file) *)

InitSession ==
    /\ lists = <<DefaultList>>
    /\ todos = <<>>
    /\ currentListId = Default
    /\ undoStack = <<>>
    /\ maxSize = DefaultMaxSize
    /\ nextTodo = 1
    /\ nextList = 1
    /\ live = <<>>
    /\ room = MaxSession
    /\ last = Idle

NextSession ==
    \/ \E listId \in ListIdInputs : SelectList(listId)
    \/ GetFilteredTodos
    \/ \E text \in TextInputs : AddTodoFromText(text)
    \/ \E todoId \in TodoIdInputs : ToggleTodo(todoId)
    \/ \E todoIds \in SessionDragInputs, listId \in ListIdInputs :
          MoveTodosToList(todoIds, listId)
    \/ \E d \in SessionDragInputs, t \in TodoIdInputs \cup {Null} : ReorderTodosInList(d, t)
    \/ \E name \in NameInputs : AddListFromName(name)
    \/ \E todoId \in TodoIdInputs, text \in TextInputs : UpdateTodo(todoId, text)
    \/ \E todoId \in TodoIdInputs : DeleteTodo(todoId)
    \/ \E selectedIds \in DragInputs : DeleteSelectedTodos(selectedIds)
    \/ \E todoId \in TodoIdInputs : DuplicateTodo(todoId)
    \/ \E todoId \in TodoIdInputs, newOrder \in NewOrderInputs : UpdateTodoOrder(todoId, newOrder)
    \/ \E texts \in ClipboardInputs : PasteClipboardTodos(texts)
    \/ \E listId \in ListIdInputs, name \in NameInputs : UpdateList(listId, name)
    \/ \E listId \in ListIdInputs : DeleteList(listId)
    \/ Undo

SpecSession == InitSession /\ [][NextSession]_vars

----------------------------------------------------------------------------
(* The UndoManager on its own, driven with recorded actions and mock mutators
   as in the unit tests of src/tests/TodoApp.edit.test.js *)

\* the n-th action handed to addAction, by kind; the first five are the records
\* the application pushes, "moveTodosTest" is the record the unit test pushes
HarnessAction(kind, n) ==
    CASE kind = "addTodo" -> [type |-> "addTodo", todoId |-> TodoId(n)]
      [] kind = "toggleTodo" ->
            [type |-> "toggleTodo", todoId |-> TodoId(n), previousState |-> FALSE]
      [] kind = "moveTodos" ->
            MoveTodosAction(<<TodoId(n)>>, Null, [id \in {TodoId(n)} |-> ListId(1)])
      [] kind = "reorderTodos" ->
            [type |-> "reorderTodos", listId |-> Null, todoIds |-> <<TodoId(n)>>,
             originalOrders |-> [id \in {TodoId(n)} |-> OrderStep]]
      [] kind = "pasteTodos" -> [type |-> "pasteTodos", addedTodoIds |-> <<TodoId(n)>>]
      [] kind = "moveTodosTest" ->
            [type |-> "moveTodos", todoIds |-> <<TodoId(n)>>, originalListId |-> ListId(1)]
      [] kind = "noType" -> [data |-> TodoId(n)]
      [] kind = "emptyType" -> [type |-> "", todoId |-> TodoId(n)]
      [] OTHER -> NullAction

HarnessKinds ==
    {"addTodo", "toggleTodo", "moveTodos", "reorderTodos", "pasteTodos", "moveTodosTest",
     "noType", "emptyType", "null"}

\* new UndoManager(maxSize)
InitUndo ==
    /\ maxSize \in 1..MaxCapacity
    /\ lists = <<DefaultList>>
    /\ todos = <<>>
    /\ currentListId = Default
    /\ undoStack = <<>>
    /\ nextTodo = 1
    /\ nextList = 1
    /\ live = <<>>
    /\ room = MaxLive
    /\ last = Idle

\* undoManager.addAction(action)
UM_AddAction(kind) ==
    /\ HasRoom
    /\ LET action == HarnessAction(kind, nextTodo)
           accepted == IsValidAction(action)
       IN  /\ undoStack' = addAction(undoStack, action, maxSize)
           /\ live' = IF accepted THEN Append(live, action) ELSE live
           /\ room' = IF accepted THEN room - 1 ELSE room
           /\ nextTodo' = IF accepted THEN nextTodo + 1 ELSE nextTodo
           /\ last' = Observe("addAction", "undefined", <<>>,
                              IF accepted THEN "accepted" ELSE "rejected")
    /\ UNCHANGED <<lists, todos, currentListId, maxSize, nextList>>

\* undoManager.undo(operations) with mock mutators that throw or do not
UM_Undo(throws) ==
    /\ LET u == undo(undoStack, throws)
       IN  /\ undoStack' = u.stack
           /\ live' = IF u.ret THEN SubSeq(live, 1, Len(live) - 1) ELSE live
           /\ last' = [op |-> "undo", ret |-> IF u.ret THEN "true" ELSE "false",
                       events |-> <<>>, call |-> u.call, threw |-> u.threw, tag |-> ""]
    /\ UNCHANGED <<lists, todos, currentListId, maxSize, nextTodo, nextList, room>>

\* undoManager.clear()
UM_Clear ==
    /\ undoStack' = <<>>
    /\ live' = <<>>
    /\ last' = Observe("clear", "undefined", <<>>, "")
    /\ UNCHANGED <<lists, todos, currentListId, maxSize, nextTodo, nextList, room>>

NextUndo ==
    \/ \E kind \in HarnessKinds : UM_AddAction(kind)
    \/ \E throws \in BOOLEAN : UM_Undo(throws)
    \/ UM_Clear

SpecUndo == InitUndo /\ [][NextUndo]_vars

----------------------------------------------------------------------------
(* The order keys on task collections of any shape: TodoOperations called on
   arrays whose tasks carry any order, or none *)

\* order values a task may carry; Undefined is a task without an order
OrderInputs == {Undefined, 0, 500, OrderStep, 2 * OrderStep, 3 * OrderStep}

InitOrders ==
    \E n \in 0..MaxTodos :
        \E f \in [1..n -> {Null, ListId(1)}], o \in [1..n -> OrderInputs] :
            /\ lists = <<DefaultList, StoredList(1)>>
            /\ todos = [i \in 1..n |->
                           [id |-> TodoId(i), text |-> <<"a">>, completed |-> FALSE,
                            listId |-> f[i], createdAt |-> Now(i), order |-> o[i]]]
            /\ currentListId = Default
            /\ undoStack = <<>>
            /\ maxSize = DefaultMaxSize
            /\ nextTodo = n + 1
            /\ nextList = 2
            /\ live = <<>>
            /\ room = MaxHistory
            /\ last = Idle

NextOrders ==
    \/ \E listId \in ListIdInputs : SelectList(listId)
    \/ \E text \in TextInputs : AddTodoFromText(text)
    \/ \E listId \in ListIdInputs \cup {Null} : NormalizeTodoOrders(listId)

SpecOrders == InitOrders /\ [][NextOrders]_vars

----------------------------------------------------------------------------
(* Insertion at a position, on stored data whose partitions are normalized *)

NextInsert ==
    \/ \E todoId \in TodoIdInputs, targetIndex \in TargetIndexInputs,
          listId \in ListIdInputs \cup {Null} :
             InsertTodoAtPosition(todoId, targetIndex, listId)
    \/ Undo

SpecInsert == Init /\ [][NextInsert]_vars

----------------------------------------------------------------------------
(* A session of list operations that starts from the default data; the ids the
   session generates for lists are numbered from 0, so that two lists are
   created within MaxLists *)

MaxListSession == 5

ListSessionIds == {Default, ListId(0), ListId(1), MissingId}

\* the lists selected in the session: the default view and the first list created
ListSelectInputs == {Default, ListId(0)}

\* the names tried in the session: two of them can be held by two lists at once
ListNameInputs == NameInputs \cup {<<"c">>}

InitLists ==
    /\ lists = <<DefaultList>>
    /\ todos = <<>>
    /\ currentListId = Default
    /\ undoStack = <<>>
    /\ maxSize = DefaultMaxSize
    /\ nextTodo = 1
    /\ nextList = 0
    /\ live = <<>>
    /\ room = MaxListSession
    /\ last = Idle

NextLists ==
    \/ \E listId \in ListSelectInputs : SelectList(listId)
    \/ AddTodoFromText(<<"a">>)
    \/ \E name \in ListNameInputs : AddListFromName(name)
    \/ \E listId \in ListSessionIds, name \in ListNameInputs : UpdateList(listId, name)
    \/ \E listId \in ListSessionIds : DeleteList(listId)
    \/ Undo

SpecLists == InitLists /\ [][NextLists]_vars

----------------------------------------------------------------------------
(* DataManager.loadData on a data file: todos holds the tasks parsed from the
   file (DataManager.js:45-46) until LoadData has migrated them *)

\* the order of a stored task: absent (or null), or a multiple of the step
StoredOrderInputs == {Undefined, OrderStep, 2 * OrderStep}

\* todo.listId || 'default', the key migrateTodoOrders groups by
GroupKey(t) == IF t.listId = Null THEN Default ELSE t.listId

\* migrateTodoOrders: index + 1 of the i-th task in its group after the stable
\* sort by createdAt
MigrateRank(ts, i) ==
    Cardinality({j \in 1..Len(ts) :
                    /\ GroupKey(ts[j]) = GroupKey(ts[i])
                    /\ \/ ts[j].createdAt < ts[i].createdAt
                       \/ (ts[j].createdAt = ts[i].createdAt /\ j <= i)})

\* DataManager.migrateTodoOrders: only the tasks without an order are given one
migrateTodoOrders(ts) ==
    LET needsMigration == \E i \in 1..Len(ts) : ts[i].order = Undefined
    IN  IF ~needsMigration THEN ts
        ELSE [i \in 1..Len(ts) |->
                 IF ts[i].order = Undefined
                 THEN [ts[i] EXCEPT !.order = MigrateRank(ts, i) * OrderStep]
                 ELSE ts[i]]

\* the data file: up to MaxTodos tasks of the default partition and of one list,
\* with creation times in any order and orders present or not
InitLoad ==
    \E n \in 0..MaxTodos :
        \E f \in [1..n -> {Null, ListId(1)}], o \in [1..n -> StoredOrderInputs],
           c \in [1..n -> 1..MaxTodos] :
            /\ lists = <<DefaultList, StoredList(1)>>
            /\ todos = [i \in 1..n |->
                           [id |-> TodoId(i), text |-> <<"a">>, completed |-> FALSE,
                            listId |-> f[i], createdAt |-> Now(c[i]), order |-> o[i]]]
            /\ currentListId = Default
            /\ undoStack = <<>>
            /\ maxSize = DefaultMaxSize
            /\ nextTodo = n + 1
            /\ nextList = 2
            /\ live = <<>>
            /\ room = MaxHistory
            /\ last = Idle

\* TodoApp.loadData: DataManager.loadData migrates the parsed tasks, once
LoadData ==
    /\ last.op = "init"
    /\ todos' = migrateTodoOrders(todos)
    /\ last' = Observe("loadData", "undefined", <<>>, "")
    /\ UNCHANGED <<lists, currentListId, undoStack, maxSize, nextTodo, nextList, live, room>>

NextLoad ==
    \/ LoadData
    \/ (last.op # "init" /\ GetFilteredTodos)

SpecLoad == InitLoad /\ [][NextLoad]_vars

----------------------------------------------------------------------------
(* Vocabulary of the properties *)

\* the ids getFilteredTodos() shows for the tasks ts in the list cur
Displayed(ts, cur) == Ids(FilteredTodos(ts, cur))

AllIncomplete(ts, cur) ==
    \A i \in 1..Len(ts) : HasId(getTodosForList(ts, cur), ts[i].id) => ~ts[i].completed

AllInPartition(ts, cur) ==
    \A i \in 1..Len(ts) :
        HasId(getTodosForList(ts, cur), ts[i].id) => ts[i].listId = NormalizeListId(cur)

Without(seq, S) == SelectSeq(seq, LAMBDA x : x \notin S)

Present(d, seq) == SelectSeq(d, LAMBDA x : x \in SeqToSet(seq))

\* ins placed behind the first k elements of seq
InsertBehind(seq, k, ins) == SubSeq(seq, 1, k) \o ins \o SubSeq(seq, k + 1, Len(seq))

OrderOf(ts, id) == ts[FindIndex(ts, id)].order

ListOf(ts, id) == ts[FindIndex(ts, id)].listId

Top(stack) == stack[Len(stack)]

RealDrags == DragInputs \ {<<>>}

----------------------------------------------------------------------------
(* Properties of reordering *)

\* what C1 expects of dragging d onto t in the displayed sequence old
C1_Expected(old, d, t) ==
    LET rest == Without(old, SeqToSet(d))
        k == IndexOf(rest, t)
    IN  IF IndexOf(old, d[1]) < IndexOf(old, t)
        THEN InsertBehind(rest, k, Present(d, old))
        ELSE InsertBehind(rest, k - 1, Present(d, old))

C2_AppendsAtEnd ==
    \A d \in RealDrags, shown \in RenderCases(currentListId) :
        LET old == Displayed(todos, currentListId)
            expected == Without(old, SeqToSet(d)) \o Present(d, old)
            r == reorderTodosInList(d, Null, todos, currentListId, shown)
        IN  /\ r.push # <<>> => r.push[1].todoIds = expected
            /\ (AllIncomplete(todos, currentListId) /\ AllInPartition(todos, currentListId))
                 => Displayed(r.ts, currentListId) = expected

\* C2 happens: the first of three displayed tasks was dragged to the end
C2_Witness ==
    /\ last.op = "reorderTodosInList" /\ last.tag = "append"
    /\ last.events = <<"push", "save">>
    /\ undoStack # <<>> /\ Top(undoStack).type = "reorderTodos"
    /\ Top(undoStack).todoIds = <<TodoId(2), TodoId(3), TodoId(1)>>
    /\ AllIncomplete(todos, currentListId) /\ AllInPartition(todos, currentListId)
    /\ Displayed(todos, currentListId) = <<TodoId(2), TodoId(3), TodoId(1)>>

DistinctOrdersPerPartition(ts) ==
    \A i, j \in 1..Len(ts) :
        (i # j /\ ts[i].listId = ts[j].listId) => ts[i].order # ts[j].order

\* C3: the task operations (here moveTodosToList, reorderTodosInList and undo)
\* keep the tasks free of two distinct tasks with the same listId and equal
\* order values.
C3_DistinctOrdersPerPartition ==
    [][ ( /\ last'.op \in {"moveTodosToList", "reorderTodosInList", "undo"}
          /\ DistinctOrdersPerPartition(todos) )
        => DistinctOrdersPerPartition(todos') ]_vars

\* C4: when reorderTodosInList has changed keys in a list (named or 'default')
\* whose displayed tasks are all incomplete, getFilteredTodos() returns exactly the
\* sequence the reorder computed and recorded.
C4_DisplayIsComputedSequence ==
    [][ ( /\ last'.op = "reorderTodosInList"
          /\ last'.events # <<>>
          /\ AllIncomplete(todos, currentListId) )
        => Displayed(todos', currentListId') = Top(undoStack').todoIds ]_vars

\* some order value differs between the tasks before and after
OrderChanged(before, after) ==
    \E i \in 1..Len(before) : OrderOf(after, before[i].id) # before[i].order

\* C5: a call of reorderTodos, directly or through reorderTodosInList, pushes
\* exactly one 'reorderTodos' record and then saves if and only if some task's
\* order value changes; otherwise it pushes nothing and does not save, and
\* reorderTodos returns true in the first case and false in the second.
C5_RecordsIffOrderChanged ==
    [][ last'.op \in {"reorderTodos", "reorderTodosInList"}
        => IF OrderChanged(todos, todos')
           THEN /\ undoStack' # <<>> /\ undoStack' = Append(undoStack, Top(undoStack'))
                /\ Top(undoStack').type = "reorderTodos"
                /\ last'.events = <<"push", "save">>
                /\ last'.op = "reorderTodos" => last'.ret = "true"
           ELSE /\ undoStack' = undoStack
                /\ last'.events = <<>>
                /\ last'.op = "reorderTodos" => last'.ret = "false" ]_vars

\* C5 happens: reorderTodos changed a key, recorded it and saved
C5_Witness ==
    /\ last.op = "reorderTodos" /\ last.ret = "true"
    /\ last.events = <<"push", "save">>
    /\ Len(undoStack) = 1 /\ Top(undoStack).type = "reorderTodos"
    /\ \E id \in DOMAIN Top(undoStack).originalOrders :
          OrderOf(todos, id) # Top(undoStack).originalOrders[id]

----------------------------------------------------------------------------
(* Properties of the undo log *)

\* s is the tail end of l
IsSuffix(s, l) == Len(s) <= Len(l) /\ s = SubSeq(l, Len(l) - Len(s) + 1, Len(l))

\* C6: for every maxSize >= 1 and every sequence of addAction, undo and clear,
\* the log never holds more than maxSize actions; it is always the newest end of
\* the accepted, not yet undone actions in push order; an accepted addAction on a
\* full log drops exactly the oldest entry; and the action a successful undo
\* removes is the newest one not yet undone, never an evicted one.
C6_BoundedLogEvictsOldest ==
    [][ /\ Len(undoStack') <= maxSize'
        /\ IsSuffix(undoStack', live')
        /\ (last'.op = "addAction" /\ last'.tag = "accepted")
             => undoStack' = (IF Len(undoStack) = maxSize THEN Tail(undoStack) ELSE undoStack)
                                \o <<Top(live')>>
        /\ (last'.op = "undo" /\ last'.ret = "true")
             => undoStack # <<>> /\ Top(undoStack) = Top(live) ]_vars

\* C6 happens: an action was pushed onto a full log and the oldest one is gone
C6_Witness ==
    /\ last.op = "addAction" /\ last.tag = "accepted"
    /\ Len(undoStack) = maxSize
    /\ Len(live) > Len(undoStack)
    /\ Top(undoStack) = Top(live)

\* the mutator that inverts a recorded action of each type
C7_InverseOf(type) ==
    CASE type = "addTodo" -> "deleteTodoById"
      [] type = "deleteTodo" -> "restoreTodo"
      [] type = "toggleTodo" -> "toggleTodoById"
      [] type = "editTodo" -> "updateTodoById"
      [] type = "addList" -> "deleteListById"
      [] type = "deleteList" -> "restoreList"
      [] type = "editList" -> "updateListById"
      [] type = "moveTodos" -> "moveTodosToListById"
      [] type = "reorderTodos" -> "restoreTodoOrders"
      [] type = "updateTodoOrder" -> "updateTodoOrderById"
      [] type = "batchDeleteTodos" -> "restoreMultipleTodos"
      [] OTHER -> "none"

\* C7: a successful undo applies the inverse of the newest action in the log and
\* removes only that action, the others keeping their order.
C7_UndoAppliesInverseOfTop ==
    [][ (last'.op = "undo" /\ last'.ret = "true")
        => /\ undoStack # <<>>
           /\ undoStack' = SubSeq(undoStack, 1, Len(undoStack) - 1)
           /\ last'.call.fn = C7_InverseOf(Top(undoStack).type) ]_vars

\* C8: in every failure case of UndoManager.undo (empty log, unrecognized type on
\* top, inverse handler throwing) the call returns false and the log holds the
\* same actions in the same order as before; on an empty log no mutator is invoked.
C8_FailedUndoLeavesLog ==
    [][ ( /\ last'.op = "undo"
          /\ \/ undoStack = <<>>
             \/ Top(undoStack).type \notin RecognizedTypes
             \/ last'.threw )
        => /\ last'.ret = "false"
           /\ undoStack' = undoStack
           /\ undoStack = <<>> => last'.call = NoCall ]_vars

\* C8 happens: the mutator of a recognized action threw and the log is intact
C8_Witness ==
    /\ last.op = "undo" /\ last.threw /\ last.ret = "false"
    /\ undoStack # <<>> /\ Top(undoStack).type \in RecognizedTypes
    /\ last.call # NoCall

\* C9: undoing a recorded move gives every moved task the listId it had before
\* the move, task by task.
C9_UndoRestoresListIds ==
    [][ (last'.op = "undo" /\ undoStack # <<>> /\ Top(undoStack).type = "moveTodos")
        => /\ last'.ret = "true"
           /\ \A id \in DOMAIN Top(undoStack).originalListIds :
                 HasId(todos', id) => ListOf(todos', id) = Top(undoStack).originalListIds[id] ]_vars

\* C10: a reorderTodosInList that changes keys captures, for every task it lists
\* in originalOrders, the order the task had before, and changes the order of no
\* other task; undoing a 'reorderTodos' action succeeds, sets the order of every
\* task in its originalOrders map to the captured value and changes no other
\* order. Together: reorder followed by undo leaves every order as it was.
C10_UndoRestoresOrders ==
    [][ /\ (last'.op = "reorderTodosInList" /\ last'.events # <<>>)
             => \A i \in 1..Len(todos) :
                    IF todos[i].id \in DOMAIN Top(undoStack').originalOrders
                    THEN Top(undoStack').originalOrders[todos[i].id] = todos[i].order
                    ELSE OrderOf(todos', todos[i].id) = todos[i].order
        /\ (last'.op = "undo" /\ undoStack # <<>> /\ Top(undoStack).type = "reorderTodos")
             => /\ last'.ret = "true"
                /\ \A i \in 1..Len(todos) :
                      /\ HasId(todos', todos[i].id)
                      /\ OrderOf(todos', todos[i].id) =
                            IF todos[i].id \in DOMAIN Top(undoStack).originalOrders
                            THEN Top(undoStack).originalOrders[todos[i].id]
                            ELSE todos[i].order ]_vars

\* C10 happens: an undo has put back the keys of at least two reordered tasks
C10_Witness ==
    /\ last.op = "undo" /\ last.ret = "true"
    /\ last.call.fn = "restoreTodoOrders"
    /\ Cardinality(DOMAIN last.call.originalOrders) >= 2
    /\ \A id \in DOMAIN last.call.originalOrders :
          OrderOf(todos, id) = last.call.originalOrders[id]

----------------------------------------------------------------------------
(* Properties of undoing task and list operations *)

\* the same task records, each once
SameRecords(a, b) == Len(a) = Len(b) /\ SeqToSet(a) = SeqToSet(b)

\* the data after one undo() that follows an operation which left the tasks ts and
\* the lists ls and handed push to addToUndoStack
UndoneAfter(ts, ls, cur, push, shown) ==
    undoInApp(addActions(undoStack, push, maxSize), [todos |-> ts, lists |-> ls, cur |-> cur],
              shown)

\* an operation on the tasks that recorded something, followed by one undo(), gives
\* back the task records there were
C11_RoundTrip(r) ==
    r.push # <<>>
    => \A shown \in BOOLEAN :
          LET u == UndoneAfter(r.ts, lists, currentListId, r.push, shown)
          IN  u.ret /\ SameRecords(u.st.todos, todos)

\* C11: addTodoFromText, duplicateTodo, deleteTodo, deleteMultipleTodos and
\* updateTodo, when they succeed (change the tasks and record it), followed by one
\* undo(), leave the same set of task records as before the operation: same ids
\* and per id the same text, completed, listId, order and createdAt.
C11_UndoRestoresTaskRecords ==
    /\ \A text \in TextInputs :
          C11_RoundTrip(addTodoFromText(text, currentListId, todos, nextTodo))
    /\ \A todoId \in TodoIdInputs :
          /\ C11_RoundTrip(duplicateTodo(todoId, todos, nextTodo))
          /\ C11_RoundTrip(deleteTodo(todoId, todos))
          /\ \A text \in TextInputs : C11_RoundTrip(updateTodo(todoId, text, todos))
    /\ \A todoIds \in DragInputs : C11_RoundTrip(deleteMultipleTodos(todoIds, todos))

\* C11 happens: two tasks deleted together, one of them completed, are back after undo
C11_Witness ==
    /\ last.op = "undo" /\ last.ret = "true"
    /\ last.call.fn = "restoreMultipleTodos"
    /\ Len(last.call.deletedTodos) = 2
    /\ \E i \in 1..2 : last.call.deletedTodos[i].completed
    /\ \A i \in 1..2 : \E j \in 1..Len(todos) : todos[j] = last.call.deletedTodos[i]

\* C12: whenever undo() consumes a 'toggleTodo' action whose task still exists,
\* whatever operations and undos came in between, the task's completed flag
\* afterwards is the previousState the action captured.
C12_UndoToggleRestoresPreviousState ==
    [][ ( /\ last'.op = "undo" /\ last'.ret = "true"
          /\ undoStack # <<>> /\ Top(undoStack).type = "toggleTodo"
          /\ HasId(todos, Top(undoStack).todoId) )
        => /\ HasId(todos', Top(undoStack).todoId)
           /\ todos'[FindIndex(todos', Top(undoStack).todoId)].completed
                 = Top(undoStack).previousState ]_vars

\* C12 happens: a task toggled twice is completed again after one undo
C12_Witness ==
    /\ last.op = "undo" /\ last.ret = "true"
    /\ last.call.fn = "toggleTodoById"
    /\ HasId(todos, last.call.todoId)
    /\ todos[FindIndex(todos, last.call.todoId)].completed
    /\ undoStack # <<>> /\ Top(undoStack).type = "toggleTodo"
    /\ Top(undoStack).todoId = last.call.todoId

\* a list operation that recorded something, followed by one undo(), gives back the
\* list records there were, and the task records too
C13_RoundTrip(r, ts, cur) ==
    r.push # <<>>
    => \A shown \in BOOLEAN :
          LET u == UndoneAfter(ts, r.ls, cur, r.push, shown)
          IN  /\ u.ret
              /\ SameRecords(u.st.lists, lists)
              /\ SameRecords(u.st.todos, todos)

\* C13: addListFromName, updateList and deleteList, when they succeed (change the
\* lists and record it), followed by one undo(), leave the same set of list records
\* (id, name, createdAt) as before; after deleteList every task the cascade removed
\* is back with all its fields.
C13_UndoRestoresListRecords ==
    /\ \A name \in NameInputs :
          C13_RoundTrip(addListFromName(name, lists, nextList), todos, currentListId)
    /\ \A listId \in ListIdInputs :
          /\ \A name \in NameInputs :
                C13_RoundTrip(updateList(listId, name, lists), todos, currentListId)
          /\ LET r == deleteList(listId, lists, todos)
             IN  C13_RoundTrip(r, r.ts,
                               IF r.ret = "true" /\ currentListId = listId
                               THEN Default ELSE currentListId)

\* C13 happens: a deleted list is back after undo together with the task it held
C13_Witness ==
    /\ last.op = "undo" /\ last.ret = "true"
    /\ last.call.fn = "restoreList"
    /\ Len(last.call.todos) >= 1
    /\ \E i \in 1..Len(lists) : lists[i] = last.call.list
    /\ \A k \in 1..Len(last.call.todos) :
          \E j \in 1..Len(todos) : todos[j] = last.call.todos[k]

\* C14: after pasteClipboardTodos has added tasks, one undo() returns true, removes
\* exactly the pasted tasks, so that the number of tasks is what it was before the
\* paste, and saves.
C14_UndoRemovesPastedTasks ==
    [][ ( /\ last'.op = "undo"
          /\ undoStack # <<>> /\ Top(undoStack).type = "pasteTodos" )
        => /\ last'.ret = "true"
           /\ \A k \in 1..Len(Top(undoStack).addedTodoIds) :
                 ~HasId(todos', Top(undoStack).addedTodoIds[k])
           /\ Len(todos') = Len(todos) - Len(Top(undoStack).addedTodoIds)
           /\ last'.events = <<"save">> ]_vars

----------------------------------------------------------------------------
(* Properties of the order keys *)

\* positions of the tasks of the partition listId names
Partition(ts, listId) == {i \in 1..Len(ts) : ts[i].listId = NormalizeListId(listId)}

\* C15: getNextOrderValue(todos, listId) is 1000 when the partition has no task
\* and otherwise the maximum order of the partition, a missing order counting as
\* 0, plus 1000; tasks of other partitions do not count, 'default' and null name
\* the same partition, and a task added with this value has an order strictly
\* greater than every other task of its partition.
C15_NextOrderIsPartitionMaxPlusStep ==
    /\ \A listId \in ListIdInputs \cup {Null} :
          LET P == Partition(todos, listId)
              v == getNextOrderValue(todos, listId)
          IN  /\ P = {} => v = 1000
              /\ P # {} => /\ \E i \in P : v = OrderOrZero(todos[i]) + 1000
                           /\ \A j \in P : OrderOrZero(todos[j]) + 1000 <= v
    /\ getNextOrderValue(todos, Default) = getNextOrderValue(todos, Null)
    /\ \A text \in TextInputs :
          LET r == addTodoFromText(text, currentListId, todos, nextTodo)
          IN  r.ret = "object"
              => /\ Len(r.ts) = Len(todos) + 1
                 /\ \A j \in Partition(todos, currentListId) :
                       OrderOrZero(todos[j]) < r.ts[Len(r.ts)].order

\* C15 happens: a task was added behind two tasks of its partition, one without order
C15_Witness ==
    /\ last.op = "addTodoFromText" /\ last.ret = "object"
    /\ Len(todos) = 3
    /\ todos[3].listId = todos[1].listId /\ todos[3].listId = todos[2].listId
    /\ todos[1].order = Undefined /\ todos[2].order = 2 * OrderStep
    /\ todos[3].order = 3 * OrderStep

\* C16: on a partition of n tasks that all have an order, normalizeTodoOrders
\* leaves the partition with the orders 1000, 2000, ..., n*1000, each once, keeps
\* a before b whenever a.order < b.order, changes no task of another partition
\* and nothing but the order, returns true (and saves) exactly when some order
\* changed, and called again at once returns false without saving.
C16_NormalizeAssignsSteps ==
    \A listId \in ListIdInputs \cup {Null} :
        LET P == Partition(todos, listId)
            r == normalizeTodoOrders(todos, listId)
            again == normalizeTodoOrders(r.ts, listId)
            changed == \E i \in 1..Len(todos) : r.ts[i].order # todos[i].order
        IN  (\A i \in P : todos[i].order # Undefined)
            => /\ Len(r.ts) = Len(todos)
               /\ \A k \in 1..Cardinality(P) :
                     Cardinality({i \in P : r.ts[i].order = k * 1000}) = 1
               /\ \A a, b \in P :
                     todos[a].order < todos[b].order => r.ts[a].order < r.ts[b].order
               /\ \A i \in 1..Len(todos) :
                     IF i \in P THEN r.ts[i] = [todos[i] EXCEPT !.order = r.ts[i].order]
                     ELSE r.ts[i] = todos[i]
               /\ (r.ret = "true") = changed
               /\ r.ret \in {"true", "false"}
               /\ r.events = (IF changed THEN <<"save">> ELSE <<>>)
               /\ again.ret = "false" /\ again.events = <<>> /\ again.ts = r.ts

\* C16 happens: normalizing changed the keys of a partition of three tasks
C16_Witness ==
    /\ last.op = "normalizeTodoOrders" /\ last.ret = "true"
    /\ last.events = <<"save">>
    /\ Len(todos) = 3
    /\ \A i \in 1..3 : todos[i].listId = Null /\ todos[i].order = i * OrderStep

----------------------------------------------------------------------------
(* Properties of the displayed sequence and of rejected calls *)

\* C17: in the sequence getFilteredTodos() returns, after any sequence of
\* operations, no completed task precedes an incomplete one whatever their order
\* values, and tasks with the same completed flag appear in ascending order value.
C17_CompletedLastThenAscendingOrder ==
    LET shown == FilteredTodos(todos, currentListId)
    IN  \A i, j \in 1..Len(shown) :
            i < j => /\ ~(shown[i].completed /\ ~shown[j].completed)
                     /\ shown[i].completed = shown[j].completed
                           => shown[i].order <= shown[j].order

\* C17 happens: getFilteredTodos() put a completed task with the smaller order
\* behind an incomplete one
C17_Witness ==
    /\ last.op = "getFilteredTodos"
    /\ currentListId = Default
    /\ Len(todos) >= 2
    /\ ~todos[1].completed /\ todos[2].completed
    /\ todos[2].order < todos[1].order

\* a text or name that is empty or made of spaces only
WhitespaceOnly(s) == \A k \in 1..Len(s) : s[k] = " "

\* name, trimmed, is the name of a list other than exceptId when case is ignored
DuplicatesAnotherName(name, exceptId) ==
    \E k \in 1..Len(lists) :
        /\ lists[k].id # exceptId
        /\ ToLowerCase(lists[k].name) = ToLowerCase(Trim(name))

TaskExists(todoId) == \E k \in 1..Len(todos) : todos[k].id = todoId

ListExists(listId) == \E k \in 1..Len(lists) : lists[k].id = listId

\* the call returned null or false, left the tasks alone, pushed no undo action
\* and did not call saveData
RejectedUntouched(r) ==
    /\ r.ret \in {"null", "false"}
    /\ r.ts = todos
    /\ r.push = <<>>
    /\ r.events = <<>>

\* the same for an operation on the lists
RejectedListUntouched(r) ==
    /\ r.ret \in {"null", "false"}
    /\ r.ls = lists
    /\ r.push = <<>>
    /\ r.events = <<>>

----------------------------------------------------------------------------
(* Properties of the calls of reorderTodosInList that must do nothing *)

\* the tasks of the current list
CurrentListTodos == getTodosForList(todos, currentListId)

InCurrentList(todoId) ==
    \E k \in 1..Len(CurrentListTodos) : CurrentListTodos[k].id = todoId

\* the call left every task record as it was, pushed nothing and saved nothing
ReorderDidNothing(r) ==
    /\ SameRecords(r.ts, todos)
    /\ r.push = <<>>
    /\ r.events = <<>>

\* C19: reorderTodosInList called with an empty draggedIds, with a single dragged
\* id equal to targetId, or with a non-null targetId that is not in the current
\* list changes no task, pushes no undo action and does not save.
C19_ReorderNoOpCases ==
    \A d \in DragInputs, t \in TodoIdInputs \cup {Null}, shown \in BOOLEAN :
        \/ d = <<>>
        \/ (Len(d) = 1 /\ d[1] = t)
        \/ (t # Null /\ ~InCurrentList(t))
        => ReorderDidNothing(reorderTodosInList(d, t, todos, currentListId, shown))

\* C19 happens: a task of the current list was dropped on a target that is not in
\* the current list, with several tasks stored
C19_Witness ==
    /\ last.op = "reorderTodosInList"
    /\ last.tag = "targetMissing"
    /\ last.events = <<>>
    /\ Len(CurrentListTodos) >= 1
    /\ Len(todos) >= 2

\* C20: reorderTodosInList called with a dragged id that does not belong to the
\* current list's tasks is a no-op: no task's order changes, nothing is pushed to
\* the undo log and nothing is saved.
C20_ForeignDraggedIdIsNoOp ==
    \A d \in DragInputs, t \in TodoIdInputs \cup {Null}, shown \in BOOLEAN :
        (\E k \in 1..Len(d) : ~InCurrentList(d[k]))
        => ReorderDidNothing(reorderTodosInList(d, t, todos, currentListId, shown))

----------------------------------------------------------------------------
(* Properties of the lists *)

C22_DefaultListIsPermanent ==
    /\ \E k \in 1..Len(lists) : lists[k].id = Default /\ lists[k].name = DefaultList.name
    /\ LET r == deleteList(Default, lists, todos)
       IN  r.ret = "false" /\ r.ls = lists /\ r.ts = todos /\ r.push = <<>> /\ r.events = <<>>
    /\ \A name \in ListNameInputs \cup {<<>>} :
          LET r == updateList(Default, name, lists)
          IN  r.ret = "null" /\ r.ls = lists /\ r.push = <<>> /\ r.events = <<>>

\* C22 happens: deleteList('default') was called while a second list and undo
\* records existed, and returned false without saving
C22_Witness ==
    /\ last.op = "deleteList"
    /\ last.tag = Default
    /\ last.ret = "false"
    /\ last.events = <<>>
    /\ Len(lists) = 2
    /\ undoStack # <<>>

\* C23: after any sequence of addListFromName, updateList, deleteList and undo,
\* no two lists have names that are equal ignoring case, and every list name is
\* non-empty and trimmed.
C23_ListNamesUniqueAndTrimmed ==
    /\ \A i, j \in 1..Len(lists) :
          i # j => ToLowerCase(lists[i].name) # ToLowerCase(lists[j].name)
    /\ \A i \in 1..Len(lists) :
          /\ lists[i].name # <<>>
          /\ Head(lists[i].name) # " "
          /\ lists[i].name[Len(lists[i].name)] # " "

\* C23 happens: undo brought back a deleted list or an earlier name, with three
\* lists stored
C23_Witness ==
    /\ last.op = "undo"
    /\ last.ret = "true"
    /\ last.call.fn \in {"restoreList", "updateListById"}
    /\ Len(lists) = 3

----------------------------------------------------------------------------
(* Properties of loading *)

\* C24: after DataManager.loadData() of any stored data, including data in which
\* only some tasks lack an order, every task has a defined numeric order and
\* within each listId partition no two tasks have equal order, tasks that lacked
\* an order being placed according to createdAt.
C24_LoadedOrdersDefinedAndDistinct ==
    [][last'.op = "loadData"
       => /\ \A i \in 1..Len(todos') : todos'[i].order # Undefined
          /\ \A i, j \in 1..Len(todos') :
                i # j /\ todos'[i].listId = todos'[j].listId
                   => todos'[i].order # todos'[j].order
          /\ \A i, j \in 1..Len(todos) :
                /\ todos[i].order = Undefined /\ todos[j].order = Undefined
                /\ todos[i].listId = todos[j].listId
                /\ todos[i].createdAt < todos[j].createdAt
                => todos'[i].order < todos'[j].order]_vars

----------------------------------------------------------------------------
(* Properties of what the undo log accepts *)

\* the objects without a usable type: null, {}, an object with other fields
\* only, an object whose type is the empty string
UntypedActions ==
    {NullAction, <<>>, HarnessAction("noType", nextTodo), HarnessAction("emptyType", nextTodo)}

\* C25: addAction(null), addAction({}) and addAction of any object without a type
\* leave the log unchanged (count, contents, canUndo) and do not throw.
C25_UntypedActionsAreIgnored ==
    \A action \in UntypedActions :
        LET after == addAction(undoStack, action, maxSize)
        IN  /\ after = undoStack
            /\ Len(after) = Len(undoStack)
            /\ (Len(after) > 0) = (Len(undoStack) > 0)

\* C25 happens: an action without a type was handed to a log that is full
C25_Witness ==
    /\ last.op = "addAction"
    /\ last.tag = "rejected"
    /\ Len(undoStack) = maxSize

\* C26: the undo log never contains an action whose type is not one of the
\* recognized variants (addTodo, deleteTodo, toggleTodo, editTodo, addList,
\* deleteList, editList, moveTodos, reorderTodos, updateTodoOrder,
\* batchDeleteTodos): pushing such an action is rejected without adding it.
C26_LogHoldsRecognizedTypesOnly ==
    \A i \in 1..Len(undoStack) : undoStack[i].type \in RecognizedTypes

----------------------------------------------------------------------------
(* Properties of the order of recording and saving *)

\* the forward operations that record an undo action, and the type each records
RecordedTypeOf ==
    [addTodoFromText |-> "addTodo", duplicateTodo |-> "addTodo",
     toggleTodo |-> "toggleTodo", updateTodo |-> "editTodo", deleteTodo |-> "deleteTodo",
     deleteMultipleTodos |-> "batchDeleteTodos", moveTodosToList |-> "moveTodos",
     reorderTodosInList |-> "reorderTodos", updateTodoOrder |-> "updateTodoOrder",
     addListFromName |-> "addList", updateList |-> "editList", deleteList |-> "deleteList",
     pasteClipboardTodos |-> "pasteTodos"]

\* C27: in every forward operation that records an undo action (add, duplicate,
\* toggle, edit, delete, batch delete, move, reorder, order update, list
\* add/edit/delete, paste), the action is pushed onto the undo log before
\* saveData is called for that operation, so at every save the newest log entry
\* describes the mutation being persisted.
C27_PushedBeforeSaved ==
    [][/\ last'.op \in DOMAIN RecordedTypeOf
       /\ \E k \in 1..Len(last'.events) : last'.events[k] \in {"push", "save"}
       => /\ last'.events = <<"push", "save">>
          /\ Len(undoStack') = Len(undoStack) + 1
          /\ SubSeq(undoStack', 1, Len(undoStack)) = undoStack
          /\ Top(undoStack').type = RecordedTypeOf[last'.op]]_vars

\* C27 happens: a task was added with two records already in the log, and its
\* record was pushed, then the data saved
C27_Witness ==
    /\ last.op = "addTodoFromText"
    /\ last.events = <<"push", "save">>
    /\ Len(undoStack) = 3
    /\ Top(undoStack).type = "addTodo"

----------------------------------------------------------------------------
(* Properties of moves and of the default view *)

\* C28: moveTodosToList(todoIds, targetListId) with a targetListId that is not
\* the id of an existing list returns false and leaves every task's listId
\* unchanged, with no undo action recorded.
C28_MoveToMissingListRejected ==
    \A todoIds \in DragInputs, targetListId \in ListIdInputs :
        ~ListExists(targetListId)
        => LET r == moveTodosToList(todoIds, targetListId, todos)
           IN  /\ r.ret = "false"
               /\ Len(r.ts) = Len(todos)
               /\ \A i \in 1..Len(todos) : r.ts[i].listId = todos[i].listId
               /\ r.push = <<>>

\* C29: the 'default' list denotes exactly the partition of tasks whose listId is
\* null: getTodosForList('default'), and therefore getFilteredTodos and the
\* reorder view when the current list is 'default', contains only tasks with
\* listId == null.
C29_DefaultViewIsNullPartition ==
    /\ \A k \in 1..Len(getTodosForList(todos, Default)) :
          getTodosForList(todos, Default)[k].listId = Null
    /\ currentListId = Default
          => \A k \in 1..Len(FilteredTodos(todos, currentListId)) :
                FilteredTodos(todos, currentListId)[k].listId = Null

----------------------------------------------------------------------------
(* Properties of reordering twice *)

\* the texts getFilteredTodos() shows for the tasks ts in the list cur
DisplayedTexts(ts, cur) ==
    [k \in 1..Len(FilteredTodos(ts, cur)) |-> FilteredTodos(ts, cur)[k].text]

\* the tasks after reorderTodosInList([d], t) applied twice
ReorderedTwice(d, t, shown1, shown2) ==
    reorderTodosInList(<<d>>, t,
                       reorderTodosInList(<<d>>, t, todos, currentListId, shown1).ts,
                       currentListId, shown2).ts

\* d and t are next to each other in the displayed sequence
AdjacentInDisplay(d, t) ==
    LET old == Displayed(todos, currentListId)
    IN  IndexOf(old, d) - IndexOf(old, t) \in {1, 0 - 1}

----------------------------------------------------------------------------
(* A session of adding, pasting, importing and undoing from the default data *)

NextBlocked ==
    \/ AddTodoFromText(<<"a">>)
    \/ \E texts \in ClipboardInputs : PasteClipboardTodos(texts)
    \/ \E importData \in ImportInputs : ImportList(importData)
    \/ Undo

SpecBlocked == InitSession /\ [][NextBlocked]_vars

----------------------------------------------------------------------------
(* Properties of insertTodoAtPosition *)

\* the keys of the partition are 1000, 2000, ..., one per task
PartitionNormalized(ts, listId) ==
    {ts[i].order : i \in Partition(ts, listId)}
        = {k * OrderStep : k \in 1..Cardinality(Partition(ts, listId))}

InPartition(ts, listId, todoId) == \E i \in Partition(ts, listId) : ts[i].id = todoId

\* C31: on a normalized partition of n tasks and for 0 <= targetIndex < n,
\* insertTodoAtPosition(todoId, targetIndex, listId, todos) leaves the task at
\* 0-based index targetIndex of the partition in ascending order, i.e. with order
\* (targetIndex + 1) * 1000 after the normalization it triggers, whether the task
\* started before or after that index.
C31_InsertLandsAtTargetIndex ==
    \A listId \in ListIdInputs \cup {Null}, todoId \in TodoIdInputs,
       targetIndex \in TargetIndexInputs :
        /\ PartitionNormalized(todos, listId)
        /\ InPartition(todos, listId, todoId)
        /\ targetIndex < Cardinality(Partition(todos, listId))
        => LET r == insertTodoAtPosition(todoId, targetIndex, listId, todos)
           IN  /\ r.ret = "true"
               /\ OrderOf(r.ts, todoId) = (targetIndex + 1) * OrderStep

\* C32: after insertTodoAtPosition succeeds and undo() is called once, every task of
\* the partition has the order value it had before the insert, so the partition's
\* ordering is exactly restored by undoing the recorded 'updateTodoOrder' action.
C32_UndoRestoresPartitionOrders ==
    \A listId \in ListIdInputs \cup {Null}, todoId \in TodoIdInputs,
       targetIndex \in TargetIndexInputs, shown \in BOOLEAN :
        LET r == insertTodoAtPosition(todoId, targetIndex, listId, todos)
            u == UndoneAfter(r.ts, lists, currentListId, r.push, shown)
        IN  r.ret = "true"
            => /\ u.ret
               /\ \A i \in Partition(todos, listId) :
                     OrderOf(u.st.todos, todos[i].id) = todos[i].order

----------------------------------------------------------------------------
(* Properties of TodoApp.undo *)

\* C33: TodoApp.undo() calls saveData exactly when the undo succeeded (returns
\* true); when it returns false because the log is empty or the top action's type
\* is unrecognized, nothing is saved and no task, list or log entry is changed.
C33_UndoSavesExactlyOnSuccess ==
    [][last'.op = "undo"
       => /\ last'.ret = "true" => last'.events = <<"save">>
          /\ last'.ret = "false"
             => /\ last'.events = <<>>
                /\ \/ undoStack = <<>>
                   \/ undoStack[Len(undoStack)].type \notin RecognizedTypes
                /\ UNCHANGED <<todos, lists, undoStack>>]_vars

\* C33 happens: an undo was refused with tasks in the data and an action on the log
C33_Witness ==
    /\ last.op = "undo"
    /\ last.ret = "false"
    /\ last.events = <<>>
    /\ undoStack # <<>>
    /\ todos # <<>>

----------------------------------------------------------------------------
(* Referential integrity of tasks and of the current list *)

\* C35: after any sequence of operations (including moveTodosToList, deleteList and
\* undo of addList or moveTodos), every task's listId is either null or the id of a
\* list that currently exists.
C35_TasksReferToExistingLists ==
    \A i \in 1..Len(todos) : todos[i].listId = Null \/ ListExists(todos[i].listId)

\* C36: starting from the default data, after any sequence of selectList,
\* addListFromName, deleteList and undo, currentListId is the id of a list that
\* currently exists: selectList of a missing id returns false without changing it,
\* and deleting the selected list or undoing the creation of the selected list
\* resets it to 'default'.
C36_CurrentListExists ==
    /\ ListExists(currentListId)
    /\ [][/\ ListExists(currentListId')
          /\ last'.op = "selectList" /\ ~ListExists(currentListId')
             => last'.ret = "false"
          /\ last'.op = "selectList" /\ last'.ret = "false"
             => currentListId' = currentListId
          /\ last'.op = "deleteList" /\ last'.ret = "true" /\ last'.tag = currentListId
             => currentListId' = Default
          /\ /\ last'.op = "undo" /\ last'.call.fn = "deleteListById"
             /\ last'.call.listId = currentListId
             => currentListId' = Default]_vars

\* C36 happens: the creation of the list that was selected has been undone
C36_Witness ==
    /\ last.op = "undo"
    /\ last.ret = "true"
    /\ last.call.fn = "deleteListById"
    /\ last.tag = last.call.listId
    /\ currentListId = Default
    /\ ~ListExists(last.call.listId)

----------------------------------------------------------------------------
(* Properties of reorderTodosInList: what it touches and what it hands on *)

\* the record of a task without its order
Unordered(t) ==
    [id |-> t.id, text |-> t.text, completed |-> t.completed, listId |-> t.listId,
     createdAt |-> t.createdAt]

\* C37: reorderTodosInList changes nothing but the order field of tasks in the
\* current list's partition: it never adds, removes or duplicates a task, never
\* changes a task's id, text, completed, listId or createdAt, and never changes the
\* order of a task that belongs to another partition.
C37_ReorderTouchesOnlyPartitionOrders ==
    [][last'.op = "reorderTodosInList"
       => /\ Len(todos') = Len(todos)
          /\ {Unordered(todos'[i]) : i \in 1..Len(todos')}
                = {Unordered(todos[i]) : i \in 1..Len(todos)}
          /\ \A i \in 1..Len(todos) :
                todos[i].listId # NormalizeListId(currentListId)
                => todos[i] \in SeqToSet(todos')]_vars

\* C37 happens: a reorder in the default view was recorded while a task of another
\* list and a completed task were stored
C37_Witness ==
    /\ last.op = "reorderTodosInList"
    /\ last.events # <<>>
    /\ undoStack # <<>>
    /\ undoStack[Len(undoStack)].type = "reorderTodos"
    /\ currentListId = Default
    /\ \E i \in 1..Len(todos) : todos[i].listId # Null
    /\ \E i \in 1..Len(todos) : todos[i].completed

\* C38: for any non-empty draggedIds of distinct ids and any target in the current
\* list, including a target that is itself one of several dragged tasks, the id
\* sequence that reorderTodosInList passes to reorderTodos is a permutation of the
\* current list's tasks in which the dragged tasks are contiguous, in the order
\* listed in draggedIds, and all other tasks keep their relative order.
C38_PassedIdsArePermutation ==
    LET current == FilteredTodos(todos, currentListId)
        old == Ids(current)
    IN  \A d \in RealDrags, t \in SeqToSet(old) :
            ReorderCase(d, t, current) # "self"
            => LET n == NewOrderTodoIds(current, d, t)
                   dragged == Present(d, old)
               IN  /\ Len(n) = Len(old)
                   /\ SeqToSet(n) = SeqToSet(old)
                   /\ \E k \in 0..(Len(n) - Len(dragged)) :
                         SubSeq(n, k + 1, k + Len(dragged)) = dragged
                   /\ Without(n, SeqToSet(d)) = Without(old, SeqToSet(d))
                   /\ \A shown \in RenderCases(currentListId) :
                         LET r == reorderTodosInList(d, t, todos, currentListId, shown)
                         IN  r.push # <<>> => r.push[1].todoIds = n

\* C38 happens: the first and the last of three displayed tasks were dragged
\* together onto the last one, and the reorder was recorded
C38_Witness ==
    /\ last.op = "reorderTodosInList" /\ last.tag = "forwardOntoDragged"
    /\ last.events = <<"push", "save">>
    /\ undoStack # <<>> /\ Top(undoStack).type = "reorderTodos"
    /\ Top(undoStack).todoIds = <<TodoId(1), TodoId(3), TodoId(2)>>
    /\ Displayed(todos, currentListId) = <<TodoId(1), TodoId(3), TodoId(2)>>

----------------------------------------------------------------------------
(* SelectionManager: the selection is [ids |-> the selected ids in the order the
   Set holds them, last |-> lastSelectedTodoId] *)

NoSelection == [ids |-> <<>>, last |-> Null]

\* SelectionManager.selectTodoRange(startTodoId, endTodoId, todos) on the selection sel
selectTodoRange(startTodoId, endTodoId, ts, sel) ==
    LET startIndex == FindIndex(ts, startTodoId)
        endIndex == FindIndex(ts, endTodoId)
        minIndex == IF startIndex <= endIndex THEN startIndex ELSE endIndex
        maxIndex == IF startIndex <= endIndex THEN endIndex ELSE startIndex
    IN  IF Len(ts) = 0 \/ startIndex = 0 \/ endIndex = 0 THEN sel
        ELSE [ids |-> [k \in 1..(maxIndex - minIndex + 1) |-> ts[minIndex + k - 1].id],
              last |-> endTodoId]

\* SelectionManager.selectTodo: [sel, type, startId, endId]
selectTodo(todoId, isMultiSelect, isRangeSelect, sel) ==
    IF isRangeSelect /\ sel.last # Null
    THEN [sel |-> sel, type |-> "range", startId |-> sel.last, endId |-> todoId]
    ELSE IF isMultiSelect
    THEN IF todoId \in SeqToSet(sel.ids)
         THEN LET remainingIds == SelectSeq(sel.ids, LAMBDA id : id # todoId)
              IN  [sel |-> [ids |-> remainingIds,
                            last |-> IF sel.last # todoId THEN sel.last
                                     ELSE IF remainingIds = <<>> THEN Null
                                     ELSE remainingIds[Len(remainingIds)]],
                   type |-> "single", startId |-> Null, endId |-> Null]
         ELSE [sel |-> [ids |-> Append(sel.ids, todoId), last |-> todoId],
               type |-> "single", startId |-> Null, endId |-> Null]
    ELSE [sel |-> [ids |-> <<todoId>>, last |-> todoId],
          type |-> "single", startId |-> Null, endId |-> Null]

\* TodoApp.selectTodoRange: the range is taken in getTodosForCurrentList()
selectTodoRangeInApp(startTodoId, endTodoId, ts, cur, sel) ==
    selectTodoRange(startTodoId, endTodoId, getTodosForList(ts, cur), sel)

\* TodoApp.selectTodo: a shift-selection is handed to selectTodoRange
selectTodoInApp(todoId, isMultiSelect, isRangeSelect, ts, cur, sel) ==
    LET result == selectTodo(todoId, isMultiSelect, isRangeSelect, sel)
    IN  IF result.type = "range"
        THEN selectTodoRange(result.startId, result.endId, getTodosForList(ts, cur),
                             result.sel)
        ELSE result.sel

----------------------------------------------------------------------------
(* Properties of range selection *)

\* the ids displayed between start and end, both included
DisplayedBetween(dis, start, end) ==
    LET i == IndexOf(dis, start)
        j == IndexOf(dis, end)
    IN  {dis[k] : k \in (IF i <= j THEN i ELSE j)..(IF i <= j THEN j ELSE i)}

\* C39: TodoApp.selectTodoRange(start, end), and shift-selection through
\* TodoApp.selectTodo, selects exactly the tasks lying between start and end
\* inclusive in the displayed order of the current list (the getFilteredTodos
\* order), also after the list has been reordered or tasks have been completed.
C39_RangeFollowsDisplayedOrder ==
    LET dis == Displayed(todos, currentListId)
    IN  \A start \in SeqToSet(dis), end \in SeqToSet(dis) :
            /\ SeqToSet(selectTodoRangeInApp(start, end, todos, currentListId,
                                             NoSelection).ids)
                 = DisplayedBetween(dis, start, end)
            /\ SeqToSet(selectTodoInApp(end, FALSE, TRUE, todos, currentListId,
                                        selectTodoInApp(start, FALSE, FALSE, todos,
                                                        currentListId, NoSelection)).ids)
                 = DisplayedBetween(dis, start, end)

====
